---- MODULE Spec2Model ----
(***************************************************************************)
(* KnowledgeBaseGenerator (src/source.py): URL canonicalisation, page      *)
(* classification, content extraction, the quota-bounded recursive crawl   *)
(* and the post-crawl deduplication pass.                                  *)
(*                                                                         *)
(* Text is modelled as a sequence of tokens.  A URL is the sequence        *)
(*   <<origin>> \o path tokens \o <<"?">> \o query tokens \o <<"#">> \o .. *)
(* where the origin token is "scheme://netloc", a path is made of "/" and  *)
(* segment tokens, and a query is made of words, "=", "&" and escapes.     *)
(***************************************************************************)
EXTENDS Integers, Sequences, FiniteSets, TLC

VARIABLES
    knowledge_base,   \* self.knowledge_base: domain -> DomainRecord
    visited_urls,     \* self.visited_urls
    stats,            \* self.stats: pages_crawled, pages_skipped, errors
    error_urls,       \* self.error_urls (ErrorLog)
    config,           \* max_pages_per_domain, content_only, respect_robots
    seed,             \* base_url / base_domain of the running crawl_website
    stack,            \* active crawl_page frames past link enumeration
    call,             \* the crawl_page call that has cleaned its URL (line 520), or NoCall
    fetch_log,        \* every requests.get issued, in order
    seed_log,         \* base domain of every crawl_website call, in order
    output_file,      \* what json.dump wrote to self.output_file, <<>> before it
    arg,              \* input of the operation under check
    ret               \* what it has returned so far, <<>> before it ran

vars == <<knowledge_base, visited_urls, stats, error_urls, config, seed,
          stack, call, fetch_log, seed_log, output_file, arg, ret>>

crawl_vars == <<knowledge_base, visited_urls, stats, error_urls, config, seed,
                stack, call, fetch_log, seed_log, output_file>>

(***************************************************************************)
(* Bounds of the model.                                                    *)
(***************************************************************************)
MaxFields == 2       \* "&"-separated fields in the query of a URL given to clean_url
MaxSegments == 2     \* segments in the path of a URL given to classify_page
MaxParagraphs == 2   \* <p> elements of a document
MaxStorePages == 2   \* pages of a store given to the deduplication pass
MaxQuota == 2        \* largest max_pages_per_domain the generator is built with
MaxSeeds == 2        \* crawl_website calls in one run
MaxLinks == 3        \* <a href> elements of a page given to the link loop
MaxPriorErrors == 98 \* seeds that failed at their home page before the seeds of the model

None == "none"

(***************************************************************************)
(* Sequence helpers (str.split, str.strip, membership).                    *)
(***************************************************************************)
Range(s) == {s[i] : i \in 1..Len(s)}

SeqsUpTo(S, n) == UNION {[1..k -> S] : k \in 0..n}

\* index of the first occurrence of t in s, 0 when absent (str.find)
Find(s, t) ==
    IF \E i \in 1..Len(s) : s[i] = t
    THEN CHOOSE i \in 1..Len(s) : s[i] = t /\ \A j \in 1..(i - 1) : s[j] # t
    ELSE 0

\* s.split(sep)
RECURSIVE Split(_, _)
Split(s, sep) ==
    LET i == Find(s, sep) IN
    IF i = 0 THEN <<s>>
    ELSE <<SubSeq(s, 1, i - 1)>> \o Split(SubSeq(s, i + 1, Len(s)), sep)

\* s.strip(t)
RECURSIVE LStrip(_, _)
LStrip(s, t) == IF s # <<>> /\ Head(s) = t THEN LStrip(Tail(s), t) ELSE s

RECURSIVE RStrip(_, _)
RStrip(s, t) ==
    IF s # <<>> /\ s[Len(s)] = t THEN RStrip(SubSeq(s, 1, Len(s) - 1), t) ELSE s

Strip(s, t) == RStrip(LStrip(s, t), t)

RECURSIVE Concat(_)
Concat(ss) == IF ss = <<>> THEN <<>> ELSE Head(ss) \o Concat(Tail(ss))

\* sep.join(ss)
RECURSIVE Join(_, _)
Join(ss, sep) ==
    IF ss = <<>> THEN <<>>
    ELSE IF Len(ss) = 1 THEN ss[1]
    ELSE ss[1] \o <<sep>> \o Join(Tail(ss), sep)

MapSeq(s, Op(_)) == [i \in 1..Len(s) |-> Op(s[i])]

(***************************************************************************)
(* URLs: urllib.parse as the code uses it.                                 *)
(***************************************************************************)
Origins == {"https://www.example.org", "https://example.org", "https://other.com",
            "https://www.alz.org", "https://www.webmd.com",
            "https://www.caregiveraction.org"}

\* parsed_url.netloc of an origin token
Netloc(o) ==
    CASE o = "https://www.example.org" -> "www.example.org"
      [] o = "https://example.org"     -> "example.org"
      [] o = "https://other.com"       -> "other.com"
      [] o = "https://www.alz.org"     -> "www.alz.org"
      [] o = "https://www.webmd.com"   -> "www.webmd.com"
      [] o = "https://www.caregiveraction.org" -> "www.caregiveraction.org"
      [] OTHER                         -> ""

\* urllib.parse.urlparse: fragment after the first "#", query after the first
\* "?" of what precedes it, the origin token in front
urlparse(url) ==
    LET h      == Find(url, "#")
        nofrag == IF h = 0 THEN url ELSE SubSeq(url, 1, h - 1)
        frag   == IF h = 0 THEN <<>> ELSE SubSeq(url, h + 1, Len(url))
        q      == Find(nofrag, "?")
        noq    == IF q = 0 THEN nofrag ELSE SubSeq(nofrag, 1, q - 1)
        query  == IF q = 0 THEN <<>> ELSE SubSeq(nofrag, q + 1, Len(nofrag))
        hasO   == noq # <<>> /\ Head(noq) \in Origins
    IN  [origin   |-> IF hasO THEN Head(noq) ELSE "",
         netloc   |-> IF hasO THEN Netloc(Head(noq)) ELSE "",
         path     |-> IF hasO THEN Tail(noq) ELSE noq,
         query    |-> query,
         fragment |-> frag]

\* urllib.parse.urlunparse: empty query and fragment lose their delimiter
urlunparse(origin, path, query, fragment) ==
    (IF origin = "" THEN <<>> ELSE <<origin>>) \o path
    \o (IF query = <<>> THEN <<>> ELSE <<"?">> \o query)
    \o (IF fragment = <<>> THEN <<>> ELSE <<"#">> \o fragment)

\* urllib.parse.unquote after replace('+', ' '), per token
Unquote(t) ==
    CASE t = "%26" -> "&"
      [] t = "%3D" -> "="
      [] t = "+"   -> " "
      [] OTHER     -> t

\* urllib.parse.quote_plus, per character
QuotePlus(c) ==
    CASE c = "&" -> "%26"
      [] c = "=" -> "%3D"
      [] c = " " -> "+"
      [] OTHER   -> c

\* str.lower on a word token
LowerTok(t) ==
    CASE t = "REF" -> "ref"
      [] t = "Hi"  -> "hi"
      [] t = "Caregiving is hard work" -> "caregiving is hard work"
      [] t = "CAREGIVING IS HARD WORK" -> "caregiving is hard work"
      [] t = "ARTICLE CONTINUES AFTER ADVERTISEMENT"
                   -> "article continues after advertisement"
      [] t = "You are now leaving" -> "you are now leaving"
      [] OTHER     -> t

Lower(s) == MapSeq(s, LowerTok)

\* urllib.parse.parse_qsl (keep_blank_values=False): the decoded (name, value)
\* pairs of the fields that hold "=" and a non-empty value
RECURSIVE ParseFields(_)
ParseFields(fields) ==
    IF fields = <<>> THEN <<>>
    ELSE LET f  == Head(fields)
             e  == Find(f, "=")
             nm == SubSeq(f, 1, e - 1)
             vl == SubSeq(f, e + 1, Len(f))
         IN  (IF e # 0 /\ vl # <<>>
              THEN <<[name |-> MapSeq(nm, Unquote), value |-> MapSeq(vl, Unquote)]>>
              ELSE <<>>)
             \o ParseFields(Tail(fields))

parse_qsl(query) == ParseFields(Split(query, "&"))

\* urllib.parse.parse_qs: a dict name -> list of values, keys in order of
\* first appearance; held as a sequence of [name, values]
RECURSIVE GroupPairs(_, _)
GroupPairs(pairs, acc) ==
    IF pairs = <<>> THEN acc
    ELSE LET p == Head(pairs)
             k == IF \E i \in 1..Len(acc) : acc[i].name = p.name
                  THEN CHOOSE i \in 1..Len(acc) : acc[i].name = p.name
                  ELSE 0
         IN  GroupPairs(Tail(pairs),
                 IF k = 0
                 THEN Append(acc, [name |-> p.name, values |-> <<p.value>>])
                 ELSE [acc EXCEPT ![k].values = Append(@, p.value)])

parse_qs(query) == GroupPairs(parse_qsl(query), <<>>)

\* urlencode that writes the decoded text back without quoting it
EncodeFieldUnquoted(name, value) == name \o <<"=">> \o value

\* one "k=v" field of urlencode
EncodeField(name, value) ==
    MapSeq(name, QuotePlus) \o <<"=">> \o MapSeq(value, QuotePlus)

\* urllib.parse.urlencode(params, doseq=True)
RECURSIVE EncodeItems(_)
EncodeItems(items) ==
    IF items = <<>> THEN <<>>
    ELSE LET it == Head(items)
         IN  [i \in 1..Len(it.values) |-> EncodeField(it.name, it.values[i])]
             \o EncodeItems(Tail(items))

urlencode(items) == Join(EncodeItems(items), "&")

\* tracking_params, as far as the query alphabet can spell them
tracking_params == {<<"ref">>}

IsPagination(item) == item.name = <<"pg">>

IsNotTracking(item) == Lower(item.name) \notin tracking_params

\* KnowledgeBaseGenerator.clean_url
clean_url(url) ==
    LET p == urlparse(url) IN
    IF p.netloc = "www.alz.org"
    THEN urlunparse(p.origin, p.path, <<>>, <<>>)
    ELSE IF p.netloc = "www.webmd.com"
    THEN urlunparse(p.origin, p.path,
                    urlencode(SelectSeq(parse_qs(p.query), IsPagination)), <<>>)
    ELSE urlunparse(p.origin, p.path,
                    urlencode(SelectSeq(parse_qs(p.query), IsNotTracking)), <<>>)


(***************************************************************************)
(* Page types and the parsed document.  A page type is a text (a sequence  *)
(* of tokens): the fallback of classify_page returns a piece of the path.  *)
(***************************************************************************)
content_page_types ==
    {<<"article">>, <<"blog">>, <<"news">>, <<"resource">>, <<"guide">>, <<"faq">>,
     <<"research">>, <<"publication">>, <<"study">>, <<"report">>}

\* self.avoid_page_types, in the order the source writes the set
avoid_source_order ==
    <<"login", "register", "signup", "signin", "account", "cart", "checkout",
      "contact", "about", "team", "privacy", "terms", "policy", "legal",
      "copyright", "search">>

avoid_page_types == {<<avoid_source_order[i]>> : i \in 1..Len(avoid_source_order)}

\* The deny terms the path vocabulary below can match.  Iterating a set of
\* str visits it in an order fixed only by the interpreter's string hashing;
\* only the relative order of the terms that can match matters, so an
\* iteration order is a permutation of these followed by the other terms.
MatchableAvoid == {"login", "register", "about"}

AvoidOrders ==
    {o \o SelectSeq(avoid_source_order, LAMBDA t : t \notin MatchableAvoid) :
        o \in {p \in [1..3 -> MatchableAvoid] : \A i, j \in 1..3 : p[i] = p[j] => i = j}}

\* the deny terms a path token holds as a substring: `avoid in path.lower()`
AvoidSubstrings(t) ==
    CASE t = "login"    -> {"login"}
      [] t = "blogin"   -> {"login"}
      [] t = "register" -> {"register"}
      [] t = "about"    -> {"about"}
      [] OTHER          -> {}

\* the deny terms a path token matches as a whole word: \b{avoid}s?\b
AvoidWords(t) ==
    CASE t = "login"    -> {"login"}
      [] t = "register" -> {"register"}
      [] t = "about"    -> {"about"}
      [] OTHER          -> {}

\* the content pattern "(w1|w2|..)s?" a path token ends with, None if none;
\* the patterns of lines 425-433 other than the faq one need a "/" after it
PatternAtEnd(t) ==
    CASE t = "blog"   -> "article"
      [] t = "news"   -> "news"
      [] t = "guide"  -> "resource"
      [] t = "report" -> "research"
      [] OTHER        -> None

\* (faq|question|answer)s?/? found in the token
HoldsFaq(t) == t = "faq"

\* re.search(r'(..)s?/', path): a token ending with the pattern, then "/"
SearchSlashed(path, category) ==
    \E i \in 1..(Len(path) - 1) : PatternAtEnd(path[i]) = category /\ path[i + 1] = "/"

\* the parsed document, as far as classify_page and is_content_rich_page look
\* at it: more than 5 <p> with more than 1000 characters, an <article> or
\* Article itemtype, a content-like class, more than 2 <ul>/<ol>
Docs == [many_paragraphs : BOOLEAN, article_schema : BOOLEAN,
         content_class : BOOLEAN, many_lists : BOOLEAN]

\* url.replace(base_url, ""): the origin token goes when it is the base URL
RemoveBase(url, base_url) == SelectSeq(url, LAMBDA t : t # base_url)

\* path.split('/')[0]; an origin token left in the path is "https://host"
FirstSegment(path) ==
    IF Head(path) \in Origins THEN <<"https:">> ELSE Split(path, "/")[1]

\* the first deny term, in iteration order, that matches as a whole word
RECURSIVE FirstAvoidWord(_, _)
FirstAvoidWord(order, path) ==
    IF order = <<>> THEN None
    ELSE IF \E i \in 1..Len(path) : Head(order) \in AvoidWords(path[i])
    THEN Head(order)
    ELSE FirstAvoidWord(Tail(order), path)

\* a fallback that takes the first segment of every path, single-segment
\* paths included
ClassifyContentFirstSegment(path, doc) ==
    IF SearchSlashed(path, "article") THEN <<"article">>
    ELSE IF SearchSlashed(path, "news") THEN <<"news">>
    ELSE IF SearchSlashed(path, "resource") THEN <<"resource">>
    ELSE IF \E i \in 1..Len(path) : HoldsFaq(path[i]) THEN <<"faq">>
    ELSE IF SearchSlashed(path, "research") THEN <<"research">>
    ELSE IF doc.many_paragraphs \/ doc.article_schema \/ doc.content_class
    THEN <<"article">>
    ELSE FirstSegment(path)

\* classify_page without the deny-list step (lines 424-461)
ClassifyContent(path, doc) ==
    IF SearchSlashed(path, "article") THEN <<"article">>
    ELSE IF SearchSlashed(path, "news") THEN <<"news">>
    ELSE IF SearchSlashed(path, "resource") THEN <<"resource">>
    ELSE IF \E i \in 1..Len(path) : HoldsFaq(path[i]) THEN <<"faq">>
    ELSE IF SearchSlashed(path, "research") THEN <<"research">>
    ELSE IF doc.many_paragraphs \/ doc.article_schema \/ doc.content_class
    THEN <<"article">>
    ELSE IF "/" \in Range(path) THEN FirstSegment(path)
    ELSE <<"other">>

\* KnowledgeBaseGenerator.classify_page; `order` is the iteration order of
\* self.avoid_page_types in the running interpreter
classify_page(url, base_url, doc, order) ==
    LET path == Lower(Strip(RemoveBase(url, base_url), "/"))
        hit  == FirstAvoidWord(order, path)
    IN  IF path = <<>> THEN <<"homepage">>
        ELSE IF (\E i \in 1..Len(path) : AvoidSubstrings(path[i]) # {}) /\ hit # None
        THEN <<hit>>
        ELSE ClassifyContent(Strip(RemoveBase(url, base_url), "/"), doc)

\* a richness test that never looks at the deny list
is_content_rich_page_by_document(page_type, doc) ==
    IF Lower(page_type) \in content_page_types THEN TRUE
    ELSE IF doc.many_paragraphs \/ doc.many_lists THEN TRUE
    ELSE page_type = <<"homepage">>

\* KnowledgeBaseGenerator.is_content_rich_page
is_content_rich_page(page_type, doc) ==
    IF Lower(page_type) \in content_page_types THEN TRUE
    ELSE IF Lower(page_type) \in avoid_page_types THEN FALSE
    ELSE IF doc.many_paragraphs \/ doc.many_lists THEN TRUE
    ELSE page_type = <<"homepage">>

(***************************************************************************)
(* Python dicts keep insertion order: a dict is a sequence of entries      *)
(* [key, val] with distinct keys.                                          *)
(***************************************************************************)
DictKeys(d) == {d[i].key : i \in 1..Len(d)}

DictIndex(d, k) == CHOOSE i \in 1..Len(d) : d[i].key = k

\* d[k]
DictGet(d, k) == d[DictIndex(d, k)].val

\* d[k] = v
DictSet(d, k, v) ==
    IF k \in DictKeys(d)
    THEN [d EXCEPT ![DictIndex(d, k)].val = v]
    ELSE Append(d, [key |-> k, val |-> v])

(***************************************************************************)
(* Paragraph text: words, sentences and single blanks.                     *)
(***************************************************************************)
AdMarker == "ARTICLE CONTINUES AFTER ADVERTISEMENT"

\* len() of a token
TokLen(t) ==
    CASE t = " "                       -> 1
      [] t = "Hi"                      -> 2
      [] t = "login"                   -> 5
      [] t = "%{name}%"                -> 8
      [] t = "You are now leaving"     -> 19
      [] t = "twenty characters..."     -> 20
      [] t = "twenty-one characters"   -> 21
      [] t = "Caregiving is hard work" -> 23
      [] t = "CAREGIVING IS HARD WORK" -> 23
      [] t = "caregiving is hard work" -> 23
      [] t = AdMarker                  -> 37
      [] OTHER                         -> 0

RECURSIVE TextLen(_)
TextLen(text) == IF text = <<>> THEN 0 ELSE TokLen(Head(text)) + TextLen(Tail(text))

\* the length a paragraph must exceed (line 356)
min_paragraph_length == 20

\* re.search(r'(login|sign in|subscribe|newsletter|privacy policy|terms)', ..)
HoldsBoilerplate(text) == "login" \in Range(Lower(text))

\* re.match(r'^(you are now leaving|already a member)', ..)
StartsWithNotice(text) == text # <<>> /\ LowerTok(Head(text)) = "you are now leaving"

\* re.sub(r'%\{[^}]+\}%', '', text)
RemovePlaceholders(text) == SelectSeq(text, LAMBDA t : t # "%{name}%")

\* re.sub(r'ARTICLE CONTINUES AFTER ADVERTISEMENT', '', text)
RemoveAdMarker(text) == SelectSeq(text, LAMBDA t : t # AdMarker)

\* a loop body that remembers the retained text as written, not lower-cased
ExtractParagraphCaseSensitive(acc, raw) ==
    LET text    == Strip(raw, " ")
        cleaned == Strip(RemoveAdMarker(RemovePlaceholders(text)), " ")
    IN  IF /\ text # <<>>
           /\ TextLen(text) > min_paragraph_length
           /\ "%{name}%" \notin Range(text)
           /\ ~HoldsBoilerplate(text)
           /\ ~StartsWithNotice(text)
           /\ cleaned # <<>>
           /\ cleaned \notin acc.extracted_texts
        THEN [paragraphs |-> Append(acc.paragraphs, cleaned),
              extracted_texts |-> acc.extracted_texts \cup {cleaned}]
        ELSE acc

\* the body of the loop over <p> (lines 354-368): acc holds
\* content["paragraphs"] and extracted_texts
ExtractParagraph(acc, raw) ==
    LET text    == Strip(raw, " ")
        cleaned == Strip(RemoveAdMarker(RemovePlaceholders(text)), " ")
    IN  IF /\ text # <<>>
           /\ TextLen(text) > min_paragraph_length
           /\ "%{name}%" \notin Range(text)
           /\ ~HoldsBoilerplate(text)
           /\ ~StartsWithNotice(text)
           /\ text \notin acc.extracted_texts
           /\ cleaned # <<>>
           /\ Lower(cleaned) \notin acc.extracted_texts
        THEN [paragraphs |-> Append(acc.paragraphs, cleaned),
              extracted_texts |-> acc.extracted_texts \cup {Lower(cleaned)}]
        ELSE acc

RECURSIVE ExtractParagraphs(_, _)
ExtractParagraphs(acc, raws) ==
    IF raws = <<>> THEN acc
    ELSE ExtractParagraphs(ExtractParagraph(acc, Head(raws)), Tail(raws))

\* KnowledgeBaseGenerator.extract_text_with_structure: the paragraphs of the
\* content record and its url; `paragraphs` are the get_text() of the <p>
\* of the chosen container, in document order
extract_text_with_structure(paragraphs, url) ==
    [paragraphs |-> ExtractParagraphs([paragraphs |-> <<>>, extracted_texts |-> {}],
                                      paragraphs).paragraphs,
     url |-> url]

(***************************************************************************)
(* The deduplication pass.                                                 *)
(***************************************************************************)
\* re.sub(r'\s+', ' ', paragraph.lower()).strip(): runs of blanks become one
RECURSIVE CollapseBlanks(_)
CollapseBlanks(text) ==
    IF Len(text) < 2 THEN text
    ELSE IF text[1] = " " /\ text[2] = " " THEN CollapseBlanks(Tail(text))
    ELSE <<Head(text)>> \o CollapseBlanks(Tail(text))

\* hashlib.md5 of the normalized text: equal exactly for equal normalized text
TextHash(paragraph) == Strip(CollapseBlanks(Lower(paragraph)), " ")

\* a pass that drops every paragraph whose hash was seen before, on any page
RECURSIVE DedupParagraphsAcrossPages(_, _, _)
DedupParagraphsAcrossPages(st, url, paragraphs) ==
    IF paragraphs = <<>> THEN st
    ELSE LET p == Head(paragraphs)
             h == TextHash(p)
             nx == IF h \notin DictKeys(st.hashes)
                   THEN [st EXCEPT !.hashes = DictSet(@, h, url),
                                   !.unique = Append(@, p)]
                   ELSE [st EXCEPT !.removed = @ + 1]
         IN  DedupParagraphsAcrossPages(nx, url, Tail(paragraphs))

\* the loop over one page's paragraphs (lines 854-870): st holds
\* paragraph_hashes (a map hash -> url), unique_paragraphs and duplicates_removed
RECURSIVE DedupParagraphs(_, _, _)
DedupParagraphs(st, url, paragraphs) ==
    IF paragraphs = <<>> THEN st
    ELSE LET p == Head(paragraphs)
             h == TextHash(p)
             nx == IF h \notin DictKeys(st.hashes)
                   THEN [st EXCEPT !.hashes = DictSet(@, h, url),
                                   !.unique = Append(@, p)]
                   ELSE IF DictGet(st.hashes, h) # url
                   THEN [st EXCEPT !.unique = Append(@, p)]
                   ELSE [st EXCEPT !.removed = @ + 1]
         IN  DedupParagraphs(nx, url, Tail(paragraphs))

\* the loop over the pages of one domain (lines 850-873): out collects the
\* rewritten pages
RECURSIVE DedupPages(_, _, _)
DedupPages(st, out, pages) ==
    IF pages = <<>> THEN [st |-> st, pages |-> out]
    ELSE LET pg == Head(pages)
             r  == DedupParagraphs([st EXCEPT !.unique = <<>>], pg.key,
                                   pg.val.content.paragraphs)
         IN  DedupPages(r, Append(out, [pg EXCEPT !.val.content.paragraphs = r.unique]),
                        Tail(pages))

\* the loop over the domains (lines 846-873)
RECURSIVE DedupDomains(_, _, _)
DedupDomains(st, out, kb) ==
    IF kb = <<>> THEN out
    ELSE LET d == Head(kb) IN
         IF d.key = "_metadata"
         THEN DedupDomains(st, Append(out, d), Tail(kb))
         ELSE LET r == DedupPages(st, <<>>, d.val.pages)
              IN  DedupDomains(r.st, Append(out, [d EXCEPT !.val.pages = r.pages]),
                               Tail(kb))

\* KnowledgeBaseGenerator.remove_duplicate_content: the knowledge base after it
remove_duplicate_content(kb) ==
    DedupDomains([hashes |-> <<>>, unique |-> <<>>, removed |-> 0], <<>>, kb)

(***************************************************************************)
(* KnowledgeBaseGenerator.__init__                                         *)
(***************************************************************************)
NoCall == [url |-> <<>>, depth |-> -1]

NoSeed == [base_url |-> "", base_domain |-> ""]

Constructed(max_pages, content_only, respect_robots) ==
    /\ knowledge_base = <<>>
    /\ visited_urls = {}
    /\ stats = [pages_crawled |-> 0, pages_skipped |-> 0, errors |-> 0]
    /\ error_urls = <<>>
    /\ config = [max_pages_per_domain |-> max_pages,
                 content_only |-> content_only,
                 respect_robots |-> respect_robots]
    /\ seed = NoSeed
    /\ stack = <<>>
    /\ call = NoCall
    /\ fetch_log = <<>>
    /\ seed_log = <<>>
    /\ output_file = <<>>

\* defaults of __init__: max_pages_per_domain=50 is replaced by the model's
\* quota, respect_robots=False, content_only=True
DefaultConstructed == Constructed(1, TRUE, FALSE)

(***************************************************************************)
(* The quota, the robots gate and the link partition of crawl_page.        *)
(***************************************************************************)
\* KnowledgeBaseGenerator.get_domain
get_domain(url) == urlparse(url).netloc

\* KnowledgeBaseGenerator.normalize_url: the text before "#", joined to the
\* page URL when it is no absolute URL (urljoin of "" and of "/path")
normalize_url(href, base) ==
    LET h == Find(href, "#")
        u == IF h = 0 THEN href ELSE SubSeq(href, 1, h - 1)
    IN  IF u # <<>> /\ (Head(u) \in Origins \/ Head(u) = "http://[") THEN u
        ELSE IF u = <<>> THEN base
        ELSE <<urlparse(base).origin>> \o u

\* "www." + domain, for the domains of the model
WithWww(domain) ==
    CASE domain = "example.org" -> "www.example.org"
      [] OTHER                  -> None

\* KnowledgeBaseGenerator.is_internal_link
is_internal_link(url, base_domain) ==
    LET url_domain == get_domain(url) IN
    \/ url_domain = base_domain
    \/ url_domain = WithWww(base_domain)
    \/ WithWww(url_domain) = base_domain

\* pages of the record whose type, lower-cased, is a content type
ContentPagesCount(pages) ==
    Cardinality({i \in 1..Len(pages) : Lower(pages[i].val.type) \in content_page_types})

\* a quota that ignores the 3x ceiling on the total
should_crawl_domain_content_only(kb, max_pages, domain) ==
    IF domain \notin DictKeys(kb) THEN TRUE
    ELSE ContentPagesCount(DictGet(kb, domain).pages) < max_pages

\* a quota that never stops the crawl
should_crawl_domain_always(kb, max_pages, domain) == TRUE

\* a quota that stops one page late: > in place of >=
should_crawl_domain_late(kb, max_pages, domain) ==
    IF domain \notin DictKeys(kb) THEN TRUE
    ELSE IF ContentPagesCount(DictGet(kb, domain).pages) > max_pages THEN FALSE
    ELSE IF Len(DictGet(kb, domain).pages) > max_pages * 3 THEN FALSE
    ELSE TRUE

\* KnowledgeBaseGenerator.should_crawl_domain
should_crawl_domain(kb, max_pages, domain) ==
    IF domain \notin DictKeys(kb) THEN TRUE
    ELSE IF ContentPagesCount(DictGet(kb, domain).pages) >= max_pages THEN FALSE
    ELSE IF Len(DictGet(kb, domain).pages) >= max_pages * 3 THEN FALSE
    ELSE TRUE

\* the paths the robots.txt of the model's sites disallows for "*"
robots_disallowed(url) == urlparse(url).path = <<"/", "care", "/", "x">>

\* KnowledgeBaseGenerator.is_allowed_by_robots, its answer
is_allowed_by_robots(respect_robots, url) ==
    IF ~respect_robots THEN TRUE ELSE ~robots_disallowed(url)

\* href.startswith(('javascript:', 'mailto:', 'tel:')) or empty
SkippedHref(href) == href = <<>> \/ Head(href) \in {"javascript:", "mailto:", "tel:"}

\* get_domain raises ValueError on it ("Invalid IPv6 URL")
Unparsable(url) == url # <<>> /\ Head(url) = "http://["

\* '/toolbox/' in lower_href
HoldsToolbox(url) ==
    \E i \in 1..(Len(url) - 2) : url[i] = "/" /\ url[i + 1] = "toolbox" /\ url[i + 2] = "/"

\* '/guide/' in lower_href, of the patterns of line 674 the one the model spells
HoldsSectionPattern(url) ==
    \E i \in 1..(Len(url) - 2) : url[i] = "/" /\ url[i + 1] = "guide" /\ url[i + 2] = "/"

\* any of 'article', 'post', 'blog', 'news', 'resource' in lower_href
HoldsContentWord(url) ==
    \E i \in 1..Len(url) : LowerTok(url[i]) \in {"blog", "blogin", "news"}

\* where the site-specific filtering of lines 670-730 puts an internal link
LinkPlace(base_domain, next_url) ==
    IF base_domain = "www.caregiveraction.org"
    THEN (IF HoldsToolbox(next_url) THEN "front"
          ELSE IF HoldsSectionPattern(next_url) THEN "append"
          ELSE "other")
    ELSE IF HoldsContentWord(next_url) THEN "append"
    ELSE "other"

\* what one iteration of the loop of lines 651-730 does with an <a href>
\* and its normalized URL: "skip" it, raise ("fault"), or put the URL at the
\* "front" or the end ("append") of content_links or at the end of
\* other_links ("other")
HrefKind(href, next_url, base_domain, visited) ==
    IF SkippedHref(href) THEN "skip"
    ELSE IF next_url \in visited THEN "skip"
    ELSE IF Unparsable(next_url) THEN "fault"
    ELSE IF ~is_internal_link(next_url, base_domain) THEN "skip"
    ELSE LinkPlace(base_domain, next_url)

Reverse(s) == [i \in 1..Len(s) |-> s[Len(s) + 1 - i]]

\* the hrefs of a page with their normalized URL and what the loop does
\* with them, in document order
LoopSteps(hrefs, url, base_domain, visited) ==
    {[at |-> n[1], next_url |-> n[2],
      kind |-> HrefKind(hrefs[n[1]], n[2], base_domain, visited)] :
        n \in {<<i, normalize_url(hrefs[i], url)>> : i \in 1..Len(hrefs)}}

\* the URLs of one kind among them, in document order
RECURSIVE LinksOfKind(_, _, _)
LinksOfKind(steps, kind, from) ==
    IF \A st \in steps : st.at < from THEN <<>>
    ELSE (IF \E st \in steps : st.at = from /\ st.kind = kind
          THEN <<(CHOOSE st \in steps : st.at = from).next_url>> ELSE <<>>)
         \o LinksOfKind(steps, kind, from + 1)

\* a partition that appends where the code inserts at the front
PartitionLinksInDocumentOrder(steps) ==
    [content_links |-> LinksOfKind(steps, "front", 1) \o LinksOfKind(steps, "append", 1),
     other_links   |-> LinksOfKind(steps, "other", 1),
     fault         |-> \E st \in steps : st.kind = "fault"]

PartitionLinks(steps) ==
    [content_links |-> Reverse(LinksOfKind(steps, "front", 1))
                       \o LinksOfKind(steps, "append", 1),
     other_links   |-> LinksOfKind(steps, "other", 1),
     fault         |-> \E st \in steps : st.kind = "fault"]

\* the loop over the <a href> of a stored page (lines 651-730): fault is set
\* when an iteration raises, and then the lists are never used
link_partition(hrefs, url, base_domain, visited) ==
    CHOOSE links \in {PartitionLinks(steps) :
                         steps \in {LoopSteps(hrefs, url, base_domain, visited)}} : TRUE

(***************************************************************************)
(* The sites crawled: what each URL links to and the <p> texts it holds.   *)
(***************************************************************************)
WwwSite == "https://www.example.org"
BareSite == "https://example.org"

HomeUrl == <<WwwSite, "/">>
ToolboxUrl == <<WwwSite, "/", "toolbox">>
AboutUrl == <<WwwSite, "/", "about">>
ArticleUrl == <<WwwSite, "/", "blog", "/", "a">>
BlogUrl == <<WwwSite, "/", "blog", "/">>
CareUrl == <<BareSite, "/", "care", "/", "x">>
BareHomeUrl == <<BareSite, "/">>

\* the <a href> of the page at a canonical URL, in document order
SiteLinks(url) ==
    CASE url = HomeUrl ->
            << <<"mailto:">>,
               <<"/", "toolbox", "?", "ref", "=", "pg">>,
               <<"/", "about">>,
               <<BareSite, "/", "care", "/", "x">>,
               <<"#", "top">>,
               <<"https://other.com", "/">>,
               <<"/", "blog", "/", "a">>,
               <<"/", "blog", "/">>,
               <<"/", "toolbox">> >>
      [] url = ToolboxUrl ->
            << <<"/", "blog", "/", "a">>, <<"http://[">> >>
      [] url = ArticleUrl ->
            << <<"/", "blog", "/">>, <<"/">>, <<"/", "toolbox">> >>
      [] url = BlogUrl ->
            << <<"/", "blog", "/", "a", "#", "top">>, <<"/", "about">> >>
      [] url = CareUrl ->
            << <<WwwSite, "/", "blog", "/", "a">> >>
      [] url = BareHomeUrl ->
            << <<"/", "care", "/", "x">>, <<WwwSite, "/", "about">> >>
      [] OTHER -> <<>>

\* the get_text() of its <p> elements
SiteParagraphs(url) ==
    CASE url = HomeUrl ->
            << <<"Caregiving is hard work", " ", "Hi">>,
               <<"Caregiving is hard work", " ", " ", "Hi">> >>
      [] url = ArticleUrl ->
            << <<"Caregiving is hard work", " ", "Hi">>,
               <<AdMarker, " ", "Hi">> >>
      [] OTHER -> << <<"twenty-one characters">> >>

\* how requests.get can answer for a URL: "html" is a 200 text/html page,
\* "status" another status code, "nonhtml" another Content-Type, "exception"
\* a request that raises
SiteResponses(url) ==
    CASE url = HomeUrl     -> {"html", "exception"}
      [] url = ToolboxUrl  -> {"html", "status"}
      [] url = ArticleUrl  -> {"html", "nonhtml"}
      [] url = BlogUrl     -> {"html", "status"}
      [] url = CareUrl     -> {"html", "exception"}
      [] OTHER             -> {"html"}

\* the URLs given to crawl_website
SeedUrls == {HomeUrl, <<WwwSite, "/", "blog">>, <<BareSite>>}

(***************************************************************************)
(* crawl_website and crawl_page.                                           *)
(***************************************************************************)
Idle == seed = NoSeed

\* a skip that is also counted as an error
SkippedAndFailed == [stats EXCEPT !.pages_skipped = @ + 1, !.errors = @ + 1]

\* self.stats["pages_skipped"] += 1
Skipped == [stats EXCEPT !.pages_skipped = @ + 1]

\* a failure counted as a skip
FailedAsSkipped == [stats EXCEPT !.pages_skipped = @ + 1]

\* self.stats["errors"] += 1
Failed == [stats EXCEPT !.errors = @ + 1]

EmptyStats == [pages_crawled |-> 0, by_type |-> <<>>]

\* a call that drops its depth argument
EnteredAtDepthZero(url, depth) == [url |-> clean_url(url), depth |-> 0]

\* crawl_page(url, ..., depth) past its first statement, url = self.clean_url(url)
Entered(url, depth) == [url |-> clean_url(url), depth |-> depth]

\* a crawl_website that starts an existing record afresh, pages included
StartSeedAfresh(s) ==
    LET url         == IF s[Len(s)] = "/" THEN s ELSE Append(s, "/")
        base_url    == urlparse(url).origin
        base_domain == get_domain(url)
    IN  /\ seed = NoSeed
        /\ output_file = <<>>
        /\ Len(seed_log) < MaxSeeds
        /\ seed_log' = Append(seed_log, base_domain)
        /\ seed' = [base_url |-> base_url, base_domain |-> base_domain]
        /\ knowledge_base' =
               IF base_domain \in DictKeys(knowledge_base)
               THEN DictSet(knowledge_base, base_domain,
                            [base_url |-> base_url, pages |-> <<>>,
                             stats |-> [pages_crawled |-> 0, by_type |-> <<>>]])
               ELSE knowledge_base
        /\ call' = [url |-> clean_url(url), depth |-> 0]
        /\ UNCHANGED <<visited_urls, stats, error_urls, config, stack, fetch_log, output_file, arg, ret>>

\* KnowledgeBaseGenerator.crawl_website up to its call of crawl_page
StartSeed(s) ==
    LET url         == IF s[Len(s)] = "/" THEN s ELSE Append(s, "/")
        base_url    == urlparse(url).origin
        base_domain == get_domain(url)
    IN  /\ Idle
        /\ output_file = <<>>
        /\ Len(seed_log) < MaxSeeds
        /\ seed_log' = Append(seed_log, base_domain)
        /\ seed' = [base_url |-> base_url, base_domain |-> base_domain]
        /\ knowledge_base' =
               IF base_domain \in DictKeys(knowledge_base)
               THEN DictSet(knowledge_base, base_domain,
                            [DictGet(knowledge_base, base_domain) EXCEPT !.stats = EmptyStats])
               ELSE knowledge_base
        /\ call' = Entered(url, 0)
        /\ UNCHANGED <<visited_urls, stats, error_urls, config, stack, fetch_log, output_file, arg, ret>>

\* crawl_website after crawl_page has returned
FinishSeed ==
    /\ ~Idle
    /\ call = NoCall
    /\ stack = <<>>
    /\ seed' = NoSeed
    /\ UNCHANGED <<knowledge_base, visited_urls, stats, error_urls, config, stack, call,
                   fetch_log, seed_log, output_file, arg, ret>>

Calling == call # NoCall

\* the url of crawl_page after line 520
CallUrl == call.url

ShouldCrawl(domain) ==
    should_crawl_domain(knowledge_base, config.max_pages_per_domain, domain)

\* a visited check that counts the repeated URL as a skip
VisitAlreadyVisitedCounted ==
    /\ call # NoCall
    /\ call.url \in visited_urls
    /\ call' = NoCall
    /\ stats' = Skipped
    /\ UNCHANGED <<knowledge_base, visited_urls, error_urls, config, seed, stack,
                   fetch_log, seed_log, output_file, arg, ret>>

\* crawl_page returns at line 523: the clean URL was visited
VisitAlreadyVisited ==
    /\ Calling
    /\ CallUrl \in visited_urls
    /\ call' = NoCall
    /\ UNCHANGED <<knowledge_base, visited_urls, stats, error_urls, config, seed, stack,
                   fetch_log, seed_log, output_file, arg, ret>>

\* crawl_page returns at line 533: the quota of the URL's domain is used up
VisitQuotaReached ==
    /\ Calling
    /\ CallUrl \notin visited_urls
    /\ ~ShouldCrawl(get_domain(CallUrl))
    /\ stats' = Skipped
    /\ call' = NoCall
    /\ UNCHANGED <<knowledge_base, visited_urls, error_urls, config, seed, stack,
                   fetch_log, seed_log, output_file, arg, ret>>

\* crawl_page returns at line 538: is_allowed_by_robots counted the skip
VisitRobotsDisallowed ==
    /\ Calling
    /\ CallUrl \notin visited_urls
    /\ ShouldCrawl(get_domain(CallUrl))
    /\ ~is_allowed_by_robots(config.respect_robots, CallUrl)
    /\ stats' = Skipped
    /\ call' = NoCall
    /\ UNCHANGED <<knowledge_base, visited_urls, error_urls, config, seed, stack,
                   fetch_log, seed_log, output_file, arg, ret>>

\* lines 522-538 let the call through
PassesGates ==
    /\ Calling
    /\ CallUrl \notin visited_urls
    /\ ShouldCrawl(get_domain(CallUrl))
    /\ is_allowed_by_robots(config.respect_robots, CallUrl)

\* a visited set that forgets the URL
visited_add_nothing(visited, url) == visited

\* self.visited_urls.add(url): line 541
visited_add(visited, url) == visited \cup {url}

\* lines 541 and 558: the URL is marked visited, then requested
MarkAndFetch(kind, outcome) ==
    /\ kind \in SiteResponses(CallUrl)
    /\ visited_urls' = visited_add(visited_urls, CallUrl)
    /\ fetch_log' = Append(fetch_log, [url |-> CallUrl, base_domain |-> seed.base_domain,
                                       seed_no |-> Len(seed_log), outcome |-> outcome])

\* requests.get, the parser, classify_page or the extractor raises: line 742
FetchRaises ==
    /\ PassesGates
    /\ MarkAndFetch("exception", "failed")
    /\ error_urls' = Append(error_urls, [url |-> CallUrl, kind |-> "exception"])
    /\ stats' = Failed
    /\ call' = NoCall
    /\ UNCHANGED <<knowledge_base, config, seed, stack, seed_log, output_file, arg, ret>>

\* the status code is not 200: line 559
FetchBadStatus ==
    /\ PassesGates
    /\ MarkAndFetch("status", "failed")
    /\ error_urls' = Append(error_urls, [url |-> CallUrl, kind |-> "status_code"])
    /\ stats' = Failed
    /\ call' = NoCall
    /\ UNCHANGED <<knowledge_base, config, seed, stack, seed_log, output_file, arg, ret>>

\* a non-HTML answer that is skipped and also entered in the error log
FetchNonHtmlLogged ==
    /\ PassesGates
    /\ MarkAndFetch("nonhtml", "skipped")
    /\ error_urls' = Append(error_urls, [url |-> CallUrl, kind |-> "content_type"])
    /\ stats' = Failed
    /\ call' = NoCall
    /\ UNCHANGED <<knowledge_base, config, seed, stack, seed_log, output_file, arg, ret>>

\* the Content-Type is not text/html: line 567
FetchNonHtml ==
    /\ PassesGates
    /\ MarkAndFetch("nonhtml", "skipped")
    /\ stats' = Skipped
    /\ call' = NoCall
    /\ UNCHANGED <<knowledge_base, error_urls, config, seed, stack, seed_log, output_file, arg, ret>>

\* the documents the sites of the model serve: no schema.org markup and no
\* content class, any number of paragraphs and lists
SiteDocs == {doc \in Docs : ~doc.article_schema /\ ~doc.content_class}

\* classify_page over the documents a URL can come with and the iteration
\* orders of the deny list
Classified(url, base_url) ==
    {[type |-> classify_page(url, base_url, f[1], f[2]), doc |-> f[1]] :
        f \in SiteDocs \X AvoidOrders}

\* lines 575-578 without the richness gate: every classified page passes
ClassificationsUngated(url, base_url) ==
    {[type |-> c.type, passes |-> TRUE] : c \in Classified(url, base_url)}

\* lines 575-578 with a richness gate that ignores the content_only flag
ClassificationsAlwaysGated(url, base_url) ==
    {[type   |-> c.type,
      passes |-> ~(~is_content_rich_page(c.type, c.doc) /\ c.type # <<"homepage">>)] :
        c \in Classified(url, base_url)}

\* what lines 575-578 can make of a fetched page: its type and whether the
\* richness gate lets it through
Classifications(url, base_url) ==
    {[type   |-> c.type,
      passes |-> ~(config.content_only /\ ~is_content_rich_page(c.type, c.doc)
                   /\ c.type # <<"homepage">>)] :
        c \in Classified(url, base_url)}

\* the page is not content-rich: line 578
FetchNotContentRich ==
    /\ PassesGates
    /\ MarkAndFetch("html", "skipped")
    /\ \E c \in Classifications(CallUrl, seed.base_url) : ~c.passes
    /\ stats' = Skipped
    /\ call' = NoCall
    /\ UNCHANGED <<knowledge_base, error_urls, config, seed, stack, seed_log, output_file, arg, ret>>

\* lines 587-596: the record of the seed's domain, created when missing
WithRecord(kb) ==
    IF seed.base_domain \in DictKeys(kb) THEN kb
    ELSE DictSet(kb, seed.base_domain,
                 [base_url |-> seed.base_url, pages |-> <<>>, stats |-> EmptyStats])

\* by_type[page_type] += 1, from 0 when missing
CountType(by_type, page_type) ==
    DictSet(by_type, page_type,
            IF page_type \in DictKeys(by_type) THEN DictGet(by_type, page_type) + 1 ELSE 1)

\* a store that leaves by_type alone
StorePageUncounted(kb, url, page_type, depth, now) ==
    LET rec == DictGet(kb, seed.base_domain) IN
    DictSet(kb, seed.base_domain,
        [rec EXCEPT
            !.pages = DictSet(@, url,
                [type |-> page_type,
                 content |-> extract_text_with_structure(SiteParagraphs(url), url),
                 depth |-> depth,
                 crawled_at |-> now]),
            !.stats.pages_crawled = @ + 1])

\* a store that starts the pages map of the record anew
StorePageFresh(kb, url, page_type, depth, now) ==
    LET rec == DictGet(kb, seed.base_domain) IN
    DictSet(kb, seed.base_domain,
        [rec EXCEPT
            !.pages = <<[key |-> url,
                         val |-> [type |-> page_type,
                                  content |-> extract_text_with_structure(SiteParagraphs(url), url),
                                  depth |-> depth,
                                  crawled_at |-> now]]>>,
            !.stats.pages_crawled = @ + 1,
            !.stats.by_type = CountType(@, page_type)])

\* lines 604-618: the page record and the statistics of the domain
StorePage(kb, url, page_type, depth, now) ==
    LET rec == DictGet(kb, seed.base_domain) IN
    DictSet(kb, seed.base_domain,
        [rec EXCEPT
            !.pages = DictSet(@, url,
                [type |-> page_type,
                 content |-> extract_text_with_structure(SiteParagraphs(url), url),
                 depth |-> depth,
                 crawled_at |-> now]),
            !.stats.pages_crawled = @ + 1,
            !.stats.by_type = CountType(@, page_type)])

\* the page passed the richness gate but the quota of the seed's domain is
\* used up: line 599 (the record of lines 588-596 stays)
FetchQuotaReached ==
    /\ PassesGates
    /\ MarkAndFetch("html", "skipped")
    /\ \E c \in Classifications(CallUrl, seed.base_url) : c.passes
    /\ ~should_crawl_domain(WithRecord(knowledge_base), config.max_pages_per_domain,
                            seed.base_domain)
    /\ knowledge_base' = WithRecord(knowledge_base)
    /\ stats' = Skipped
    /\ call' = NoCall
    /\ UNCHANGED <<error_urls, config, seed, stack, seed_log, output_file, arg, ret>>

\* lines 572-618 store the page under the seed's domain
Stores(page_type) ==
    /\ PassesGates
    /\ MarkAndFetch("html", "stored")
    /\ should_crawl_domain(WithRecord(knowledge_base), config.max_pages_per_domain,
                           seed.base_domain)
    /\ knowledge_base' = StorePage(WithRecord(knowledge_base), CallUrl, page_type,
                                   call.depth, Len(fetch_log) + 1)

\* the page is stored and used the quota up: line 632
StoreAndStop ==
    /\ \E c \in Classifications(CallUrl, seed.base_url) : c.passes /\ Stores(c.type)
    /\ ~should_crawl_domain(knowledge_base', config.max_pages_per_domain, seed.base_domain)
    /\ stats' = [stats EXCEPT !.pages_crawled = @ + 1]
    /\ call' = NoCall
    /\ UNCHANGED <<error_urls, config, seed, stack, seed_log, output_file, arg, ret>>

\* the page's own URL is in visited_urls (line 541) when its links are read
Links == {link_partition(SiteLinks(CallUrl), CallUrl, seed.base_domain,
                         visited_urls \cup {CallUrl})}

\* the page is stored, then its link enumeration raises: line 742
StoreAndFault ==
    /\ \E c \in Classifications(CallUrl, seed.base_url) : c.passes /\ Stores(c.type)
    /\ should_crawl_domain(knowledge_base', config.max_pages_per_domain, seed.base_domain)
    /\ \E links \in Links : links.fault
    /\ error_urls' = Append(error_urls, [url |-> CallUrl, kind |-> "exception"])
    /\ stats' = [stats EXCEPT !.pages_crawled = @ + 1, !.errors = @ + 1]
    /\ call' = NoCall
    /\ UNCHANGED <<config, seed, stack, seed_log, output_file, arg, ret>>

\* the page is stored and its links are partitioned: lines 646-730
StoreAndExplore ==
    /\ \E c \in Classifications(CallUrl, seed.base_url) : c.passes /\ Stores(c.type)
    /\ should_crawl_domain(knowledge_base', config.max_pages_per_domain, seed.base_domain)
    /\ \E links \in Links :
           /\ ~links.fault
           /\ stack' = Append(stack, [url |-> CallUrl, depth |-> call.depth,
                                      content_links |-> links.content_links,
                                      other_links |-> links.other_links])
    /\ stats' = [stats EXCEPT !.pages_crawled = @ + 1]
    /\ call' = NoCall
    /\ UNCHANGED <<error_urls, config, seed, seed_log, output_file, arg, ret>>

Top == stack[Len(stack)]

\* a loop body that calls crawl_page whatever the quota says
LoopCallUnguarded(next_url, depth) == Entered(next_url, depth)

\* the body of the loops of lines 733-740: crawl_page is called only while
\* should_crawl_domain(base_domain) holds
LoopCall(next_url, depth) ==
    IF ShouldCrawl(seed.base_domain) THEN Entered(next_url, depth) ELSE NoCall

\* loops that take the other links before the priority links
NextLinkOthersFirst ==
    /\ call = NoCall
    /\ stack # <<>>
    /\ Top.content_links # <<>> \/ Top.other_links # <<>>
    /\ LET next_url == IF Top.other_links # <<>> THEN Head(Top.other_links)
                       ELSE Head(Top.content_links)
       IN  /\ stack' = [stack EXCEPT ![Len(stack)] =
                           IF Top.other_links # <<>>
                           THEN [Top EXCEPT !.other_links = Tail(@)]
                           ELSE [Top EXCEPT !.content_links = Tail(@)]]
           /\ call' = LoopCall(next_url, Top.depth + 1)
    /\ UNCHANGED <<knowledge_base, visited_urls, stats, error_urls, config, seed,
                   fetch_log, seed_log, output_file, arg, ret>>

\* one iteration of the loops of lines 733-740: the link is taken off its
\* list and crawl_page is called when the quota allows
NextLink ==
    /\ ~Calling
    /\ stack # <<>>
    /\ Top.content_links # <<>> \/ Top.other_links # <<>>
    /\ LET next_url == IF Top.content_links # <<>> THEN Head(Top.content_links)
                       ELSE Head(Top.other_links)
       IN  /\ stack' = [stack EXCEPT ![Len(stack)] =
                           IF Top.content_links # <<>>
                           THEN [Top EXCEPT !.content_links = Tail(@)]
                           ELSE [Top EXCEPT !.other_links = Tail(@)]]
           /\ call' = LoopCall(next_url, Top.depth + 1)
    /\ UNCHANGED <<knowledge_base, visited_urls, stats, error_urls, config, seed,
                   fetch_log, seed_log, output_file, arg, ret>>

\* both loops are over: crawl_page returns to its caller
ReturnFromPage ==
    /\ ~Calling
    /\ stack # <<>>
    /\ Top.content_links = <<>>
    /\ Top.other_links = <<>>
    /\ stack' = SubSeq(stack, 1, Len(stack) - 1)
    /\ UNCHANGED <<knowledge_base, visited_urls, stats, error_urls, config, seed, call,
                   fetch_log, seed_log, output_file, arg, ret>>

\* how many entries of error_urls add_metadata copies (line 834)
metadata_errors_shown == 100

\* the sum of line 829: the values that are dicts with a "pages" key
RECURSIVE TotalPages(_)
TotalPages(kb) ==
    IF kb = <<>> THEN 0
    ELSE (IF "pages" \in DOMAIN Head(kb).val THEN Len(Head(kb).val.pages) ELSE 0)
         + TotalPages(Tail(kb))

\* a metadata dict that counts every key of the knowledge base as a domain
MetadataOverAllKeys ==
    [generator  |-> "KnowledgeBaseGenerator",
     statistics |-> [total_domains |-> Len(knowledge_base),
                     total_pages   |-> TotalPages(knowledge_base),
                     pages_crawled |-> stats.pages_crawled,
                     pages_skipped |-> stats.pages_skipped,
                     errors        |-> stats.errors],
     errors     |-> SubSeq(error_urls, 1,
                           IF Len(error_urls) < metadata_errors_shown
                           THEN Len(error_urls) ELSE metadata_errors_shown)]

\* a metadata dict that copies the whole of error_urls
MetadataAllErrors ==
    [generator  |-> "KnowledgeBaseGenerator",
     statistics |-> [total_domains |-> Len(knowledge_base)
                                       - (IF "_metadata" \in DictKeys(knowledge_base)
                                          THEN 1 ELSE 0),
                     total_pages   |-> TotalPages(knowledge_base),
                     pages_crawled |-> stats.pages_crawled,
                     pages_skipped |-> stats.pages_skipped,
                     errors        |-> stats.errors],
     errors     |-> error_urls]

\* the metadata dict of add_metadata (lines 824-835), generated_at left out
Metadata ==
    [generator  |-> "KnowledgeBaseGenerator",
     statistics |-> [total_domains |-> Len(knowledge_base)
                                       - (IF "_metadata" \in DictKeys(knowledge_base)
                                          THEN 1 ELSE 0),
                     total_pages   |-> TotalPages(knowledge_base),
                     pages_crawled |-> stats.pages_crawled,
                     pages_skipped |-> stats.pages_skipped,
                     errors        |-> stats.errors],
     errors     |-> SubSeq(error_urls, 1,
                           IF Len(error_urls) < metadata_errors_shown
                           THEN Len(error_urls) ELSE metadata_errors_shown)]

\* crawl_websites after its loop over the seeds: remove_duplicate_content,
\* then save_knowledge_base (lines 805-809)
PostProcessAndSave ==
    /\ Idle
    /\ output_file = <<>>
    /\ knowledge_base' = remove_duplicate_content(knowledge_base)
    /\ output_file' = <<knowledge_base'>>
    /\ UNCHANGED <<visited_urls, stats, error_urls, config, seed, stack, call,
                   fetch_log, seed_log, arg, ret>>

\* the loop over the pages of a domain in generate_categories (lines 884-890):
\* a dict from page type to the list of its pages, titles left out
RECURSIVE CategoriesOf(_, _)
CategoriesOf(cat, pages) ==
    IF pages = <<>> THEN cat
    ELSE LET pg  == Head(pages)
             cur == IF pg.val.type \in DictKeys(cat) THEN DictGet(cat, pg.val.type)
                    ELSE <<>>
         IN  CategoriesOf(DictSet(cat, pg.val.type, Append(cur, [url |-> pg.key])),
                          Tail(pages))

\* the loop over the domains in generate_categories (lines 881-890); the
\* defaultdict gets an entry for a domain when its first page is appended
RECURSIVE CategoriesOfDomains(_, _)
CategoriesOfDomains(categorical, kb) ==
    IF kb = <<>> THEN categorical
    ELSE IF Head(kb).key = "_metadata" \/ Head(kb).val.pages = <<>>
    THEN CategoriesOfDomains(categorical, Tail(kb))
    ELSE CategoriesOfDomains(DictSet(categorical, Head(kb).key,
                                     CategoriesOf(<<>>, Head(kb).val.pages)),
                             Tail(kb))

\* KnowledgeBaseGenerator.generate_categories: the categorical view it writes
generate_categories(kb) == CategoriesOfDomains(<<>>, kb)

\* main after crawl_websites has returned: add_metadata (line 966);
\* generate_categories writes another file and changes nothing here
AddMetadata ==
    /\ output_file # <<>>
    /\ "_metadata" \notin DictKeys(knowledge_base)
    /\ knowledge_base' = DictSet(knowledge_base, "_metadata", Metadata)
    /\ UNCHANGED <<visited_urls, stats, error_urls, config, seed, stack, call,
                   fetch_log, seed_log, output_file, arg, ret>>

Quotas == 0..MaxQuota

Init ==
    /\ \E q \in Quotas : \E content_only \in BOOLEAN : \E respect_robots \in BOOLEAN :
           Constructed(q, content_only, respect_robots)
    /\ arg = <<>>
    /\ ret = <<>>

Next ==
    \/ \E s \in SeedUrls : StartSeed(s)
    \/ FinishSeed
    \/ VisitAlreadyVisited
    \/ VisitQuotaReached
    \/ VisitRobotsDisallowed
    \/ FetchRaises
    \/ FetchBadStatus
    \/ FetchNonHtml
    \/ FetchNotContentRich
    \/ FetchQuotaReached
    \/ StoreAndStop
    \/ StoreAndFault
    \/ StoreAndExplore
    \/ NextLink
    \/ ReturnFromPage
    \/ PostProcessAndSave
    \/ AddMetadata

Spec == Init /\ [][Next]_vars

(***************************************************************************)
(* Properties of the crawl.                                                *)
(***************************************************************************)
Quota == config.max_pages_per_domain

\* the keys of the knowledge base that hold a domain record
Domains == DictKeys(knowledge_base) \ {"_metadata"}

PagesOf(domain) == DictGet(knowledge_base, domain).pages

\* stored pages of a domain whose type is in the content-type set
ContentTypedPages(domain) ==
    {i \in 1..Len(PagesOf(domain)) : PagesOf(domain)[i].val.type \in content_page_types}

\* the requests issued while crawling a seed of the domain
FetchesFor(domain) == {k \in 1..Len(fetch_log) : fetch_log[k].base_domain = domain}

\* those of them that ended with the page stored
StoredFetchesFor(domain) == {k \in FetchesFor(domain) : fetch_log[k].outcome = "stored"}

\* C1: for every domain record, the stored pages whose type is a content
\* type number at most Q and the stored pages at most 3Q, whatever the
\* seeds crawled so far.
QuotaBoundsStoredPages ==
    \A d \in Domains :
        /\ Cardinality(ContentTypedPages(d)) <= Quota
        /\ Len(PagesOf(d)) <= 3 * Quota

\* a second seed is running and a record sits on the 3Q ceiling with fewer
\* than Q content pages
QuotaBoundsStoredPagesWitness ==
    /\ Len(seed_log) = 2
    /\ Quota >= 1
    /\ \E d \in Domains :
           /\ Len(PagesOf(d)) = 3 * Quota
           /\ Cardinality(ContentTypedPages(d)) < Quota

\* C2: no canonical URL is requested twice in the whole run of a generator,
\* whether its first request stored a page, was skipped or failed.
NoUrlFetchedTwice ==
    \A i, j \in 1..Len(fetch_log) : fetch_log[i].url = fetch_log[j].url => i = j

\* crawl_page is called, under a later seed, on a URL whose request failed
NoUrlFetchedTwiceWitness ==
    /\ Calling
    /\ CallUrl \in visited_urls
    /\ \E k \in 1..Len(fetch_log) :
           /\ fetch_log[k].url = CallUrl
           /\ fetch_log[k].outcome = "failed"
           /\ fetch_log[k].seed_no < Len(seed_log)

\* C3: a request is issued for a seed's domain only in a state where the
\* quota predicate of that domain holds; once it is false no step requests
\* anything for the domain, whatever links the frames still hold.
NoFetchOnceQuotaIsFalse ==
    [][\A k \in (Len(fetch_log) + 1)..Len(fetch_log') :
           ShouldCrawl(fetch_log'[k].base_domain)]_vars

\* the page just stored used the quota up below a frame that still holds
\* priority links and other links
NoFetchOnceQuotaIsFalseWitness ==
    /\ ~Idle
    /\ ~Calling
    /\ ~ShouldCrawl(seed.base_domain)
    /\ Len(stack) >= 2
    /\ stack[1].other_links # <<>>
    /\ \E i \in 1..Len(stack) : stack[i].content_links # <<>>
    /\ fetch_log[Len(fetch_log)].outcome = "stored"

\* C4 as stated: the requests issued for a domain, stored, skipped and
\* failed ones together, number at most 3Q.
FetchesBoundedByCeiling ==
    \A d \in Range(seed_log) : Cardinality(FetchesFor(d)) <= 3 * Quota

\* C4: the requests issued for a domain that ended with the page stored
\* number at most 3Q; skipped and failed requests are not bounded by it.
StoredFetchesBoundedByCeiling ==
    \A d \in Range(seed_log) : Cardinality(StoredFetchesFor(d)) <= 3 * Quota

\* more than 3Q requests were issued for a domain with Q >= 1, and as many
\* as 3Q of them stored a page
StoredFetchesBoundedByCeilingWitness ==
    /\ Quota >= 1
    /\ \E d \in Range(seed_log) :
           /\ Cardinality(FetchesFor(d)) > 3 * Quota
           /\ Cardinality(StoredFetchesFor(d)) = 3 * Quota

\* by_type.get(t, 0)
ByType(domain, t) ==
    LET by_type == DictGet(knowledge_base, domain).stats.by_type IN
    IF t \in DictKeys(by_type) THEN DictGet(by_type, t) ELSE 0

TypesOf(domain) ==
    {PagesOf(domain)[i].val.type : i \in 1..Len(PagesOf(domain))}
    \cup DictKeys(DictGet(knowledge_base, domain).stats.by_type)

\* the latest crawl_website call on the domain
LastSeedOf(domain) ==
    CHOOSE n \in 1..Len(seed_log) :
        /\ seed_log[n] = domain
        /\ \A m \in (n + 1)..Len(seed_log) : seed_log[m] # domain

\* pages of the record stored since that call began
PagesSinceLastSeed(domain) ==
    {i \in 1..Len(PagesOf(domain)) :
        \E k \in StoredFetchesFor(domain) :
            /\ fetch_log[k].url = PagesOf(domain)[i].key
            /\ fetch_log[k].seed_no = LastSeedOf(domain)}

\* C5 as stated: by_type[t] is the number of pages of the record whose type
\* is t, across any sequence of seeds.
ByTypeCountsAllPages ==
    \A d \in Domains : \A t \in TypesOf(d) :
        ByType(d, t) = Cardinality({i \in 1..Len(PagesOf(d)) : PagesOf(d)[i].val.type = t})

\* C5: by_type[t] is the number of pages of type t stored in the record
\* since the latest crawl_website call on that domain began.
ByTypeCountsPagesSinceSeed ==
    \A d \in Domains : \A t \in TypesOf(d) :
        ByType(d, t) = Cardinality({i \in PagesSinceLastSeed(d) : PagesOf(d)[i].val.type = t})

\* a second seed on a domain has stored a page next to one of the first seed
ByTypeCountsPagesSinceSeedWitness ==
    \E d \in Domains :
        /\ PagesSinceLastSeed(d) # {}
        /\ PagesSinceLastSeed(d) # 1..Len(PagesOf(d))

\* main has run to its end
RunComplete == "_metadata" \in DictKeys(knowledge_base)

\* C12: after a complete run the saved output holds the _metadata entry,
\* with statistics.errors and statistics.pages_skipped equal to the
\* counters of the run.
SavedOutputHoldsMetadata ==
    RunComplete =>
        /\ output_file # <<>>
        /\ "_metadata" \in DictKeys(output_file[1])
        /\ DictGet(output_file[1], "_metadata").statistics.errors = stats.errors
        /\ DictGet(output_file[1], "_metadata").statistics.pages_skipped
               = stats.pages_skipped

\* crawl_page is past its visited check and one of the gates of lines
\* 528-538 turns the URL down
StoppedAtGate ==
    /\ Calling
    /\ CallUrl \notin visited_urls
    /\ \/ ~ShouldCrawl(get_domain(CallUrl))
       \/ ~is_allowed_by_robots(config.respect_robots, CallUrl)

FaultBelowOpenFrame ==
    /\ ~Calling
    /\ stack # <<>>
    /\ Top.content_links # <<>> \/ Top.other_links # <<>>
    /\ error_urls # <<>>
    /\ fetch_log # <<>>
    /\ error_urls[Len(error_urls)].url = fetch_log[Len(fetch_log)].url
    /\ fetch_log[Len(fetch_log)].url # Top.url

\* the link the loops of the top frame take next
NextOfTop ==
    IF Top.content_links # <<>> THEN Head(Top.content_links) ELSE Head(Top.other_links)

\* C14: a fault of a page visit is logged with the URL of that page and
\* counted once in errors, leaves the frames of its ancestors and the
\* running seed as they were and returns to the caller; a frame gives up a
\* link only by handing it to crawl_page or because the quota is reached,
\* it is left only when it holds no link, and the seed crawl returns to
\* crawl_websites only when every frame has been left.
FaultEndsOnlyItsSubtree ==
    /\ [][error_urls' # error_urls =>
              /\ Calling
              /\ error_urls' = Append(error_urls, error_urls'[Len(error_urls')])
              /\ error_urls'[Len(error_urls')].url = CallUrl
              /\ stats'.errors = stats.errors + 1
              /\ stats'.pages_skipped = stats.pages_skipped
              /\ stack' = stack
              /\ seed' = seed
              /\ seed_log' = seed_log
              /\ output_file' = output_file
              /\ call' = NoCall]_vars
    /\ [][(stack' # stack /\ Len(stack') = Len(stack)) =>
              /\ ~Calling
              /\ SubSeq(stack', 1, Len(stack) - 1) = SubSeq(stack, 1, Len(stack) - 1)
              /\ Len(Top.content_links) + Len(Top.other_links)
                     = Len(stack'[Len(stack)].content_links)
                       + Len(stack'[Len(stack)].other_links) + 1
              /\ \/ call' = Entered(NextOfTop, Top.depth + 1)
                 \/ call' = NoCall /\ ~ShouldCrawl(seed.base_domain)]_vars
    /\ [][Len(stack') < Len(stack) =>
              /\ Top.content_links = <<>>
              /\ Top.other_links = <<>>
              /\ stack' = SubSeq(stack, 1, Len(stack) - 1)]_vars
    /\ [][(seed # NoSeed /\ seed' = NoSeed) => (stack = <<>> /\ ~Calling)]_vars

\* a request failed at depth 2 while the frames above still hold links
FaultEndsOnlyItsSubtreeWitness ==
    /\ FaultBelowOpenFrame
    /\ Len(stack) = 2
    /\ stack[1].other_links # <<>>
    /\ fetch_log[Len(fetch_log)].outcome = "failed"

AskedDomains == {get_domain(s) : s \in SeedUrls} \cup {"never.seen"}

\* C16: for every ceiling and every domain, should_crawl_domain is false
\* exactly when the domain has a record and either its stored pages with a
\* content type number at least the ceiling or its stored pages number at
\* least three times the ceiling; for a domain without record it is true.
ShouldCrawlExactlyBelowQuota ==
    \A m \in 0..(MaxQuota + 1) : \A d \in AskedDomains :
        should_crawl_domain(knowledge_base, m, d)
            <=> ~(/\ d \in Domains
                  /\ \/ Cardinality(ContentTypedPages(d)) >= m
                     \/ Len(PagesOf(d)) >= 3 * m)

\* a record below its content quota whose total has reached the 3x
\* ceiling, next to a domain that has no record
ShouldCrawlExactlyBelowQuotaWitness ==
    /\ config.max_pages_per_domain > 0
    /\ \E d \in Domains :
           /\ Cardinality(ContentTypedPages(d)) < config.max_pages_per_domain
           /\ Len(PagesOf(d)) = 3 * config.max_pages_per_domain
           /\ ~ShouldCrawl(d)
    /\ \E d \in AskedDomains : d \notin Domains /\ ShouldCrawl(d)

\* the canonical URLs the <a href> of a page lead to
LinkTargets(url) ==
    LET hrefs == {SiteLinks(url)[i] : i \in 1..Len(SiteLinks(url))}
        nexts == {normalize_url(h, url) : h \in {g \in hrefs : ~SkippedHref(g)}}
    IN  {clean_url(n) : n \in {m \in nexts : ~Unparsable(m)}}

\* the canonical URLs crawl_website starts from
SeedPages == {clean_url(IF s[Len(s)] = "/" THEN s ELSE Append(s, "/")) : s \in SeedUrls}

\* C17: a page stored with depth 0 is the page of a seed URL, and a page
\* stored with depth d > 0 has in the same domain record a page stored with
\* depth d - 1 one of whose links leads to it.
DepthIsOneMoreThanParent ==
    \A d \in Domains : \A u \in DictKeys(PagesOf(d)) :
        LET depth == DictGet(PagesOf(d), u).depth IN
        /\ depth \in Nat
        /\ depth = 0 => u \in SeedPages
        /\ depth > 0 =>
               \E v \in DictKeys(PagesOf(d)) :
                   /\ DictGet(PagesOf(d), v).depth = depth - 1
                   /\ u \in LinkTargets(v)

\* a page stored at depth 2 under pages of depth 1 and 0
DepthIsOneMoreThanParentWitness ==
    \E d \in Domains :
        \A n \in 0..2 : \E u \in DictKeys(PagesOf(d)) : DictGet(PagesOf(d), u).depth = n

\* the keys of all stored pages
StoredUrls == UNION {DictKeys(PagesOf(d)) : d \in Domains}

\* C18: a visit that passes the visited check adds one to exactly one of
\* pages_crawled, pages_skipped and errors, and no URL is both stored and
\* logged in error_urls.
VisitEndsInOneOutcome ==
    /\ [][(Calling /\ CallUrl \notin visited_urls) =>
              /\ stats'.pages_crawled - stats.pages_crawled \in {0, 1}
              /\ stats'.pages_skipped - stats.pages_skipped \in {0, 1}
              /\ stats'.errors - stats.errors \in {0, 1}
              /\ (stats'.pages_crawled + stats'.pages_skipped + stats'.errors)
                     = (stats.pages_crawled + stats.pages_skipped + stats.errors) + 1]_vars
    /\ [](\A i \in 1..Len(error_urls) : error_urls[i].url \notin StoredUrls)

\* C19: crawl_page called on a URL whose canonical form is in the visited
\* set returns at once: knowledge base, visited set, error log, counters,
\* the log of requests and the frames of the callers stay as they are.
VisitedUrlHasNoEffect ==
    [][(Calling /\ CallUrl \in visited_urls) =>
           /\ call' = NoCall
           /\ knowledge_base' = knowledge_base
           /\ visited_urls' = visited_urls
           /\ error_urls' = error_urls
           /\ stats' = stats
           /\ fetch_log' = fetch_log
           /\ stack' = stack
           /\ seed' = seed
           /\ output_file' = output_file]_vars

\* a link whose canonical URL was visited since the link was collected is
\* handed to crawl_page
VisitedUrlHasNoEffectWitness ==
    /\ Calling
    /\ call.depth > 0
    /\ CallUrl \in visited_urls
    /\ \E i \in 1..Len(fetch_log) : fetch_log[i].url = CallUrl

\* C20: when a seed crawl starts on a domain that has a record, the stats
\* of that record become pages_crawled = 0 with an empty by_type; its pages
\* and base_url, every other record, the visited set, the error log and the
\* run-wide counters stay, and should_crawl_domain answers for the domain
\* as it did before.
SeedStartResetsOnlyStats ==
    [][(seed = NoSeed /\ seed' # NoSeed /\ seed'.base_domain \in Domains) =>
           LET d == seed'.base_domain IN
           /\ Len(knowledge_base') = Len(knowledge_base)
           /\ \A i \in 1..Len(knowledge_base) :
                  /\ knowledge_base'[i].key = knowledge_base[i].key
                  /\ knowledge_base[i].key # d => knowledge_base'[i] = knowledge_base[i]
           /\ DictGet(knowledge_base', d).stats = [pages_crawled |-> 0, by_type |-> <<>>]
           /\ DictGet(knowledge_base', d).pages = DictGet(knowledge_base, d).pages
           /\ DictGet(knowledge_base', d).base_url = DictGet(knowledge_base, d).base_url
           /\ visited_urls' = visited_urls
           /\ error_urls' = error_urls
           /\ stats' = stats
           /\ should_crawl_domain(knowledge_base', config'.max_pages_per_domain, d)
                  = should_crawl_domain(knowledge_base, config.max_pages_per_domain, d)]_vars

\* a second seed crawl has just begun on a domain whose stored pages have
\* used up the quota: the stats are reset, the pages are there, the quota
\* stays used up
SeedStartResetsOnlyStatsWitness ==
    /\ seed # NoSeed
    /\ Len(seed_log) = 2
    /\ Calling
    /\ call.depth = 0
    /\ stack = <<>>
    /\ seed.base_domain \in Domains
    /\ DictGet(knowledge_base, seed.base_domain).stats = [pages_crawled |-> 0, by_type |-> <<>>]
    /\ PagesOf(seed.base_domain) # <<>>
    /\ ~ShouldCrawl(seed.base_domain)

\* the step is remove_duplicate_content followed by the save
IsDedupStep == output_file = <<>> /\ output_file' # <<>>

\* C21: in every step every stored page stays under its key in its record
\* with its type, depth, crawled_at and content; only the deduplication
\* pass may change content.paragraphs, and nothing else of the page.
StoredPageIsImmutable ==
    [][\A i \in 1..Len(knowledge_base) :
           knowledge_base[i].key # "_metadata" =>
               /\ i <= Len(knowledge_base')
               /\ knowledge_base'[i].key = knowledge_base[i].key
               /\ knowledge_base'[i].val.base_url = knowledge_base[i].val.base_url
               /\ \A j \in 1..Len(knowledge_base[i].val.pages) :
                      LET old == knowledge_base[i].val.pages[j]
                          new == knowledge_base'[i].val.pages[j]
                      IN  /\ j <= Len(knowledge_base'[i].val.pages)
                          /\ new.key = old.key
                          /\ new.val = [old.val EXCEPT !.content.paragraphs =
                                                            new.val.content.paragraphs]
                          /\ ~IsDedupStep => new.val = old.val]_vars

\* two seeds have stored pages in one record and the deduplication pass
\* has removed a paragraph of a page
StoredPageIsImmutableWitness ==
    /\ output_file # <<>>
    /\ Len(seed_log) = 2
    /\ \E d \in Domains :
           /\ Len(PagesOf(d)) >= 2
           /\ \E j \in 1..Len(PagesOf(d)) :
                  Len(PagesOf(d)[j].val.content.paragraphs)
                      < Len(extract_text_with_structure(SiteParagraphs(PagesOf(d)[j].key),
                                                        PagesOf(d)[j].key).paragraphs)

\* C22: a frame hands out its links one at a time and only while no call
\* of a deeper level is open; it takes the head of its priority list as
\* long as that list holds a link and turns to its other links only then,
\* in their order; each link is handed to crawl_page only if
\* should_crawl_domain holds at that moment; frames below the top wait
\* unchanged.
PriorityLinksBeforeOthers ==
    /\ [][(stack' # stack /\ Len(stack') = Len(stack)) =>
              LET new == stack'[Len(stack)] IN
              /\ ~Calling
              /\ IF Top.content_links # <<>>
                 THEN /\ new = [Top EXCEPT !.content_links = Tail(@)]
                      /\ call' \in {NoCall, Entered(Head(Top.content_links), Top.depth + 1)}
                 ELSE /\ new = [Top EXCEPT !.other_links = Tail(@)]
                      /\ call' \in {NoCall, Entered(Head(Top.other_links), Top.depth + 1)}
              /\ call' # NoCall <=> ShouldCrawl(seed.base_domain)]_vars
    /\ [][\A i \in 1..(Len(stack) - 1) : i <= Len(stack') => stack'[i] = stack[i]]_vars
    /\ [][(call' # NoCall /\ call # call' /\ stack # <<>>) =>
              (stack' # stack /\ Len(stack') = Len(stack))]_vars

\* the home page hands /about, one of its other links, to crawl_page after
\* the subtree of its priority link /blog/a has been crawled two levels deep
PriorityLinksBeforeOthersWitness ==
    /\ Calling
    /\ CallUrl = AboutUrl
    /\ Len(stack) = 1
    /\ stack[1].url = HomeUrl
    /\ stack[1].content_links = <<>>
    /\ \E i, j \in 1..Len(fetch_log) :
           /\ i < j
           /\ fetch_log[i].url = ArticleUrl
           /\ fetch_log[j].url = BlogUrl

NoDenyTypeStored ==
    \A d \in Domains : \A j \in 1..Len(PagesOf(d)) :
        Lower(PagesOf(d)[j].val.type) \notin avoid_page_types

\* C25: with content-only mode on, no stored page has a type of the deny
\* list; with the mode off the richness gate is not applied at all: a
\* request ends as a skip only for an answer that is not HTML or a quota
\* that is used up, so pages of deny-list types are stored like any other.
DenyTypeStoredOnlyInAllPagesMode ==
    /\ [](config.content_only => NoDenyTypeStored)
    /\ [][(~config.content_only
           /\ Len(fetch_log') = Len(fetch_log) + 1
           /\ fetch_log'[Len(fetch_log')].outcome = "skipped") =>
              \/ "nonhtml" \in SiteResponses(CallUrl)
              \/ ~should_crawl_domain(WithRecord(knowledge_base),
                                      config.max_pages_per_domain, seed.base_domain)]_vars

\* with content-only mode off /about was requested and stored with type about
DenyTypeStoredOnlyInAllPagesModeWitness ==
    /\ ~config.content_only
    /\ \E d \in Domains : \E j \in 1..Len(PagesOf(d)) :
           /\ PagesOf(d)[j].key = AboutUrl
           /\ PagesOf(d)[j].val.type = <<"about">>

\* the step is a request that ended with the given outcome
FetchEnds(outcome) ==
    /\ Len(fetch_log') = Len(fetch_log) + 1
    /\ fetch_log'[Len(fetch_log')].outcome = outcome

\* a request ends as a skip that neither the richness gate (every
\* classification of the URL passes it) nor the quota re-check explains:
\* the answer was not HTML
NonHtmlSkip ==
    /\ FetchEnds("skipped")
    /\ should_crawl_domain(WithRecord(knowledge_base), config.max_pages_per_domain,
                           seed.base_domain)
    /\ \A c \in Classifications(CallUrl, seed.base_url) : c.passes

\* the step appends the URL being visited to error_urls and counts an error
LogsTheFault ==
    /\ Len(error_urls') = Len(error_urls) + 1
    /\ SubSeq(error_urls', 1, Len(error_urls)) = error_urls
    /\ error_urls'[Len(error_urls')].url = CallUrl
    /\ stats'.errors = stats.errors + 1

\* C27 as stated: a failed request and a 200 answer that is not HTML are
\* both appended to error_urls with the URL; the page is not stored and its
\* links are not explored.
EveryEndAfterFetchIsLogged ==
    [][(FetchEnds("failed") \/ NonHtmlSkip) =>
           /\ LogsTheFault
           /\ knowledge_base' = knowledge_base
           /\ stack' = stack]_vars

\* C27: a request that raises or answers with another status than 200 is
\* appended to error_urls with the URL and counted in errors; a 200 answer
\* that is not HTML is counted in pages_skipped and not logged; in both
\* cases the page is not stored and its links are not explored.  A fault of
\* the link enumeration is logged the same way, after the page was stored.
OnlyFailedRequestsAreLogged ==
    /\ [][FetchEnds("failed") =>
              /\ LogsTheFault
              /\ stats'.pages_skipped = stats.pages_skipped
              /\ knowledge_base' = knowledge_base
              /\ stack' = stack]_vars
    /\ [][NonHtmlSkip =>
              /\ error_urls' = error_urls
              /\ stats' = [stats EXCEPT !.pages_skipped = @ + 1]
              /\ knowledge_base' = knowledge_base
              /\ stack' = stack]_vars
    /\ [][(FetchEnds("stored") /\ error_urls' # error_urls) =>
              /\ LogsTheFault
              /\ CallUrl \in StoredUrls'
              /\ stack' = stack]_vars

\* /blog/a answered 200 with another Content-Type while the quota was open:
\* the visit ended as a skip and the error log does not name the URL
OnlyFailedRequestsAreLoggedWitness ==
    /\ fetch_log # <<>>
    /\ fetch_log[Len(fetch_log)].url = ArticleUrl
    /\ fetch_log[Len(fetch_log)].outcome = "skipped"
    /\ ~Idle
    /\ ShouldCrawl(seed.base_domain)
    /\ seed.base_domain \in Domains
    /\ \A i \in 1..Len(error_urls) : error_urls[i].url # ArticleUrl
    /\ error_urls # <<>>

\* the canonical URLs of the sites of the model
SiteUrls == {HomeUrl, ToolboxUrl, AboutUrl, ArticleUrl, BlogUrl, CareUrl, BareHomeUrl}

\* the largest number of <a href> on a page of the model
MostLinks ==
    LET counts == {Len(SiteLinks(u)) : u \in SiteUrls}
    IN  CHOOSE n \in counts : \A m \in counts : m <= n

\* the links the open frames still hold
RECURSIVE PendingLinks(_)
PendingLinks(frames) ==
    IF frames = <<>> THEN 0
    ELSE Len(Head(frames).content_links) + Len(Head(frames).other_links)
         + PendingLinks(Tail(frames))

\* what is left to do: seeds to start, URLs not yet visited, links held by
\* open frames, open frames, an open call, the seed crawl to end, the pass
\* and the save, the metadata
WorkLeft ==
    3 * (MaxSeeds - Len(seed_log))
    + (2 * MostLinks + 2) * Cardinality(SiteUrls \ visited_urls)
    + 2 * PendingLinks(stack)
    + Len(stack)
    + (IF Calling THEN 1 ELSE 0)
    + (IF Idle THEN 0 ELSE 1)
    + (IF output_file = <<>> THEN 1 ELSE 0)
    + (IF "_metadata" \in DictKeys(knowledge_base) THEN 0 ELSE 1)

\* C28: a run terminates: a call of crawl_page returns at once, or it
\* marks a URL visited that was not and only then opens a frame for the
\* links of the page; the open frames are pages visited, each once; and
\* every step of the run lowers a natural number, the work left.
CrawlTerminates ==
    /\ [](/\ WorkLeft \in Nat
          /\ visited_urls \subseteq SiteUrls
          /\ \A i \in 1..Len(stack) : stack[i].url \in visited_urls
          /\ \A i, j \in 1..Len(stack) : stack[i].url = stack[j].url => i = j)
    /\ [][WorkLeft' < WorkLeft]_vars
    /\ [][Calling =>
              /\ call' = NoCall
              /\ \/ stack' = stack
                 \/ /\ stack' = Append(stack, stack'[Len(stack')])
                    /\ stack'[Len(stack')].url = CallUrl
                    /\ CallUrl \notin visited_urls
                    /\ CallUrl \in visited_urls']_vars

\* the link cycle /blog/a -> /blog/ -> /blog/a: /blog/a was crawled from the
\* home page and /blog/ from /blog/a; the frame of /blog/ is open and does
\* not hold the link back to /blog/a, which is visited
CrawlTerminatesWitness ==
    /\ Len(stack) = 3
    /\ stack[1].url = HomeUrl
    /\ stack[2].url = ArticleUrl
    /\ stack[3].url = BlogUrl
    /\ stack[3].content_links \o stack[3].other_links = <<AboutUrl>>
    /\ WorkLeft > 0

\* C29: with a quota Q >= 1 every call of crawl_page has a depth below 3Q
\* and so has every stored page: the open frames are pages stored in the
\* record of the seed's domain, one for each depth from 0 up to the depth
\* of the caller, and a call is made only while that record holds fewer
\* than 3Q pages.
DepthBelowThreeTimesQuota ==
    Quota >= 1 =>
        /\ Calling => call.depth < 3 * Quota
        /\ \A d \in Domains : \A j \in 1..Len(PagesOf(d)) :
               PagesOf(d)[j].val.depth < 3 * Quota
        /\ (Calling /\ stack # <<>>) => call.depth = Len(stack)
        /\ stack # <<>> =>
               /\ seed.base_domain \in Domains
               /\ Len(stack) <= Len(PagesOf(seed.base_domain))
               /\ \A i \in 1..Len(stack) :
                      /\ stack[i].depth = i - 1
                      /\ \E j \in 1..Len(PagesOf(seed.base_domain)) :
                             /\ PagesOf(seed.base_domain)[j].key = stack[i].url
                             /\ PagesOf(seed.base_domain)[j].val.depth = i - 1

\* with a quota of 1 a page was stored at depth 2, the deepest the bound allows
DepthBelowThreeTimesQuotaWitness ==
    /\ Quota = 1
    /\ \E d \in Domains :
           /\ Len(PagesOf(d)) = 3
           /\ \E j \in 1..Len(PagesOf(d)) : PagesOf(d)[j].val.depth = 2

\* the pages of all domain records, each named by its record and its place
AllStoredPages == UNION {{<<d, j>> : j \in 1..Len(PagesOf(d))} : d \in Domains}

\* C30: once the knowledge base holds _metadata, its statistics give
\* total_domains as the number of domain records and total_pages as the
\* number of their pages; add_metadata called on this knowledge base
\* computes the same two numbers again and keeps the place of the entry;
\* the deduplication pass leaves the entry as it is, and the categorical
\* view has no entry for it.
MetadataIsNoDomain ==
    "_metadata" \in DictKeys(knowledge_base) =>
        LET held == DictGet(knowledge_base, "_metadata") IN
        /\ held.statistics.total_domains = Cardinality(Domains)
        /\ held.statistics.total_pages = Cardinality(AllStoredPages)
        /\ Metadata.statistics.total_domains = Cardinality(Domains)
        /\ Metadata.statistics.total_pages = Cardinality(AllStoredPages)
        /\ DictSet(knowledge_base, "_metadata", Metadata) = knowledge_base
        /\ DictGet(remove_duplicate_content(knowledge_base), "_metadata") = held
        /\ DictKeys(remove_duplicate_content(knowledge_base)) = DictKeys(knowledge_base)
        /\ "_metadata" \notin DictKeys(generate_categories(knowledge_base))
        /\ DictKeys(generate_categories(knowledge_base))
               = {d \in Domains : PagesOf(d) # <<>>}

\* the metadata were added to a knowledge base of two domain records with
\* three pages or more
MetadataIsNoDomainWitness ==
    /\ "_metadata" \in DictKeys(knowledge_base)
    /\ Cardinality(Domains) = 2
    /\ \A d \in Domains : PagesOf(d) # <<>>
    /\ Cardinality(AllStoredPages) >= 3
    /\ DictGet(knowledge_base, "_metadata").statistics.total_domains = 2

\* C32: in every state the run-wide pages_crawled is the number of page
\* records over all domain records, every stored URL is in visited_urls,
\* and no URL is a key of the pages of two domain records: the stored URLs
\* are as many as the page records.
CrawledCountsEachStoredUrlOnce ==
    /\ stats.pages_crawled = Cardinality(AllStoredPages)
    /\ StoredUrls \subseteq visited_urls
    /\ \A d1, d2 \in Domains :
           d1 # d2 => DictKeys(PagesOf(d1)) \cap DictKeys(PagesOf(d2)) = {}
    /\ Cardinality(StoredUrls) = Cardinality(AllStoredPages)

\* two seeds of one site, with and without www, have stored pages under two
\* domain records, three pages or more in all
CrawledCountsEachStoredUrlOnceWitness ==
    /\ Cardinality(Domains) = 2
    /\ \A d \in Domains : PagesOf(d) # <<>>
    /\ stats.pages_crawled >= 3
    /\ stats.pages_crawled = Cardinality(StoredUrls)

(***************************************************************************)
(* clean_url applied to a URL, then to its own result.                     *)
(***************************************************************************)
\* the fields a query is written from: a name, then optionally "=" and a value
FieldNames == {<<>>, <<"pg">>, <<"ref">>, <<"REF">>, <<"%26">>}

FieldValues == {<<>>, <<"pg">>, <<"+">>, <<"%26">>, <<"%3D", "ref">>}

QueryFields ==
    FieldNames \cup {n \o <<"=">> \o v : n \in FieldNames, v \in FieldValues}

CleanOrigins == {"https://example.org", "https://www.alz.org", "https://www.webmd.com"}

CleanPaths == {<<"/", "blog", "/", "a">>}

CleanFragments == {<<>>, <<"top">>}

\* the URL text: "?" is written whenever there is a query, "#" whenever
\* there is a fragment
MakeUrl(origin, path, query, fragment) ==
    <<origin>> \o path
    \o (IF query = <<>> THEN <<>> ELSE <<"?">> \o query)
    \o (IF fragment = <<>> THEN <<>> ELSE <<"#">> \o fragment)

CleanInputs ==
    {MakeUrl(o, p, q, f) : o \in CleanOrigins, p \in CleanPaths,
                           q \in {Join(fs, "&") : fs \in SeqsUpTo(QueryFields, MaxFields)},
                           f \in CleanFragments}

InitClean ==
    /\ DefaultConstructed
    /\ arg \in CleanInputs
    /\ ret = <<>>

\* url = clean_url(url), starting from the input
CleanStep ==
    /\ Len(ret) < 2
    /\ ret' = Append(ret, clean_url(IF ret = <<>> THEN arg ELSE ret[Len(ret)]))
    /\ UNCHANGED <<arg, crawl_vars>>

NextClean == CleanStep

SpecClean == InitClean /\ [][NextClean]_vars

\* C6: clean_url is idempotent: cleaning a cleaned URL returns it unchanged,
\* for every origin (generic, strip-all, pagination-only), query and fragment.
CleanIdempotent == Len(ret) = 2 => ret[2] = ret[1]

\* a URL that lost a tracking parameter and kept a field whose value was
\* re-encoded, cleaned twice
CleanIdempotentWitness ==
    /\ Len(ret) = 2
    /\ \E i \in 1..Len(parse_qs(urlparse(arg).query)) :
           Lower(parse_qs(urlparse(arg).query)[i].name) \in tracking_params
    /\ urlparse(arg).fragment # <<>>
    /\ "%26" \in Range(urlparse(ret[1]).query)

(***************************************************************************)
(* classify_page applied to a URL, a base URL and a document, in an        *)
(* interpreter with some iteration order of the deny-type set.             *)
(***************************************************************************)
PathWords == {"login", "register", "about", "blogin", "blog", "news", "guide",
              "report", "faq", "toolbox"}

\* paths "/w1/w2/..", with and without a trailing "/"
RECURSIVE PathOf(_)
PathOf(words) ==
    IF words = <<>> THEN <<>> ELSE <<"/", Head(words)>> \o PathOf(Tail(words))

ClassifyPaths ==
    {<<"/">>} \cup
    UNION {{PathOf(ws), PathOf(ws) \o <<"/">>} : ws \in SeqsUpTo(PathWords, MaxSegments) \ {<<>>}}

ClassifyInputs ==
    [url      : {<<o>> \o p : o \in {"https://www.example.org", "https://example.org"},
                              p \in ClassifyPaths},
     base_url : {"https://www.example.org"},
     doc      : Docs,
     order    : AvoidOrders]

InitClassify ==
    /\ DefaultConstructed
    /\ arg \in ClassifyInputs
    /\ ret = <<>>

ClassifyCall ==
    /\ ret = <<>>
    /\ ret' = <<classify_page(arg.url, arg.base_url, arg.doc, arg.order)>>
    /\ UNCHANGED <<arg, crawl_vars>>

NextClassify == ClassifyCall

SpecClassify == InitClassify /\ [][NextClassify]_vars

\* C7: classify_page is deterministic: the page type returned for a (url,
\* base_url, document) is the one every evaluation on that input returns,
\* whatever the iteration order of the deny-type set.
ClassifyDeterministic ==
    ret # <<>> =>
        \A o \in AvoidOrders : classify_page(arg.url, arg.base_url, arg.doc, o) = ret[1]

\* what classify_page analyses: the URL without base_url and outer "/"
ClassifiedPath == Strip(RemoveBase(arg.url, arg.base_url), "/")

\* neither the deny list nor a content pattern nor the document decides
NoRuleMatches ==
    /\ ClassifiedPath # <<>>
    /\ \A i \in 1..Len(ClassifiedPath) : AvoidWords(LowerTok(ClassifiedPath[i])) = {}
    /\ \A c \in {"article", "news", "resource", "research"} : ~SearchSlashed(ClassifiedPath, c)
    /\ \A i \in 1..Len(ClassifiedPath) : ~HoldsFaq(ClassifiedPath[i])
    /\ ~arg.doc.many_paragraphs /\ ~arg.doc.article_schema /\ ~arg.doc.content_class

Sentence == "Caregiving is hard work"

ParagraphTexts ==
    {<<"Hi">>,
     <<"twenty characters...">>,
     <<"twenty-one characters">>,
     <<Sentence>>,
     <<"caregiving is hard work">>,
     <<" ", "CAREGIVING IS HARD WORK", " ">>,
     <<AdMarker>>,
     <<AdMarker, " ", "Hi">>,
     <<AdMarker, " ", Sentence>>,
     <<Sentence, " ", AdMarker, " ", "Hi">>,
     <<"%{name}%", " ", Sentence>>,
     <<"login", " ", Sentence>>,
     <<"You are now leaving", " ", Sentence>>,
     <<Sentence, " ", "Hi">>,
     <<Sentence, " ", " ", "Hi">>}

ExtractInputs == SeqsUpTo(ParagraphTexts, MaxParagraphs)

InitExtract ==
    /\ DefaultConstructed
    /\ arg \in ExtractInputs
    /\ ret = <<>>

ExtractCall ==
    /\ ret = <<>>
    /\ ret' = <<extract_text_with_structure(arg, <<"https://www.example.org", "/">>)>>
    /\ UNCHANGED <<arg, crawl_vars>>

NextExtract == ExtractCall

SpecExtract == InitExtract /\ [][NextExtract]_vars

\* C10: every paragraph of the returned content record is at least 21
\* characters long, also when the advertisement marker was stripped from it.
ExtractedParagraphsLong ==
    ret # <<>> =>
        \A i \in 1..Len(ret[1].paragraphs) :
            TextLen(ret[1].paragraphs[i]) >= min_paragraph_length + 1

\* what lines 355-364 leave of the text of one <p>
CleanedText(raw) == Strip(RemoveAdMarker(RemovePlaceholders(Strip(raw, " "))), " ")

\* C11: the returned paragraph list holds no two entries that are equal
\* ignoring case, and its entries are cleaned texts of <p> elements taken in
\* document order.
ExtractedParagraphsDistinctInOrder ==
    ret # <<>> =>
        LET ps == ret[1].paragraphs IN
        /\ \A i, j \in 1..Len(ps) : Lower(ps[i]) = Lower(ps[j]) => i = j
        /\ \E f \in [1..Len(ps) -> 1..Len(arg)] :
               /\ \A i, j \in 1..Len(ps) : i < j => f[i] < f[j]
               /\ \A i \in 1..Len(ps) : ps[i] = CleanedText(arg[f[i]])

\* two <p> whose texts differ only in case were read and one was retained
ExtractedParagraphsDistinctInOrderWitness ==
    /\ ret # <<>>
    /\ Len(arg) = 2
    /\ arg[1] # arg[2]
    /\ CleanedText(arg[1]) # CleanedText(arg[2])
    /\ Lower(CleanedText(arg[1])) = Lower(CleanedText(arg[2]))
    /\ ret[1].paragraphs = <<CleanedText(arg[1])>>

(***************************************************************************)
(* remove_duplicate_content applied to a store whose pages hold what       *)
(* extract_text_with_structure returns.                                    *)
(***************************************************************************)
StoreUrls == {<<"https://www.example.org", "/">>,
              <<"https://www.example.org", "/", "blog", "/", "a">>,
              <<"https://example.org", "/", "care", "/", "x">>}

StoreTexts == {<<Sentence, " ", "Hi">>, <<Sentence, " ", " ", "Hi">>,
               <<"twenty-one characters">>}

\* the URLs of the pages of a store, in iteration order
StoreUrlOrders ==
    {us \in SeqsUpTo(StoreUrls, MaxStorePages) :
        \A i, j \in 1..Len(us) : us[i] = us[j] => i = j}

\* the paragraph lists extract_text_with_structure returns for the documents
\* written from StoreTexts
StoreParagraphs ==
    {extract_text_with_structure(d, <<>>).paragraphs : d \in SeqsUpTo(StoreTexts, MaxParagraphs)}

StoredPage(p, depth) ==
    [key |-> p.key,
     val |-> [type |-> <<"article">>,
              content |-> [paragraphs |-> p.paragraphs, url |-> p.key],
              depth |-> depth]]

DomainRecord(base_url, pages) ==
    [base_url |-> base_url, pages |-> pages,
     stats |-> [pages_crawled |-> Len(pages),
                by_type |-> IF pages = <<>> THEN <<>>
                            ELSE <<[key |-> <<"article">>, val |-> Len(pages)]>>]]

\* the first k pages under one domain record, the others under a second one
MakeStore(ps, k) ==
    LET all == [i \in 1..Len(ps) |-> StoredPage(ps[i], i - 1)] IN
    <<[key |-> "www.example.org",
       val |-> DomainRecord("https://www.example.org", SubSeq(all, 1, k))]>>
    \o (IF k < Len(ps)
        THEN <<[key |-> "example.org",
                val |-> DomainRecord("https://example.org", SubSeq(all, k + 1, Len(all)))]>>
        ELSE <<>>)

\* every page entry of the knowledge base, in iteration order
RECURSIVE AllPages(_)
AllPages(kb) ==
    IF kb = <<>> THEN <<>>
    ELSE (IF Head(kb).key = "_metadata" THEN <<>> ELSE Head(kb).val.pages)
         \o AllPages(Tail(kb))

InitDedup ==
    /\ \E us \in StoreUrlOrders : \E ds \in [1..Len(us) -> StoreParagraphs] :
         \E k \in 0..Len(us) :
           knowledge_base = MakeStore([i \in 1..Len(us) |-> [key |-> us[i], paragraphs |-> ds[i]]], k)
    /\ visited_urls = {AllPages(knowledge_base)[i].key : i \in 1..Len(AllPages(knowledge_base))}
    /\ stats = [pages_crawled |-> Len(AllPages(knowledge_base)), pages_skipped |-> 0,
                errors |-> 0]
    /\ error_urls = <<>>
    /\ config = [max_pages_per_domain |-> MaxStorePages, content_only |-> TRUE,
                 respect_robots |-> FALSE]
    /\ seed = NoSeed
    /\ stack = <<>>
    /\ call = NoCall
    /\ fetch_log = <<>>
    /\ seed_log = <<>>
    /\ output_file = <<>>
    /\ arg = knowledge_base
    /\ ret = <<>>

DedupCall ==
    /\ ret = <<>>
    /\ knowledge_base' = remove_duplicate_content(knowledge_base)
    /\ ret' = <<"deduplicated">>
    /\ UNCHANGED <<visited_urls, stats, error_urls, config, seed, stack, call,
                   fetch_log, seed_log, output_file, arg>>

\* remove_duplicate_content called once more on the store it has rewritten;
\* ret keeps the store as the first call left it
DedupAgain ==
    /\ ret = <<"deduplicated">>
    /\ knowledge_base' = remove_duplicate_content(knowledge_base)
    /\ ret' = <<"deduplicated", knowledge_base>>
    /\ UNCHANGED <<visited_urls, stats, error_urls, config, seed, stack, call,
                   fetch_log, seed_log, output_file, arg>>

NextDedup == DedupCall \/ DedupAgain

SpecDedup == InitDedup /\ [][NextDedup]_vars

Hashes(page) == {TextHash(page.val.content.paragraphs[i]) :
                    i \in 1..Len(page.val.content.paragraphs)}

\* C8: after the pass no page holds two paragraphs with the same normalized hash.
DedupNoIntraPageDuplicates ==
    ret = <<"deduplicated">> =>
        \A n \in 1..Len(AllPages(knowledge_base)) :
            LET ps == AllPages(knowledge_base)[n].val.content.paragraphs IN
            \A i, j \in 1..Len(ps) : TextHash(ps[i]) = TextHash(ps[j]) => i = j

\* C9: a paragraph hash that two different pages hold before the pass is
\* still held by both of them after it, whichever page is iterated first.
DedupKeepsCrossPage ==
    ret = <<"deduplicated">> =>
        \A a, b \in 1..Len(AllPages(arg)) :
            a # b =>
                \A h \in Hashes(AllPages(arg)[a]) \cap Hashes(AllPages(arg)[b]) :
                    /\ h \in Hashes(AllPages(knowledge_base)[a])
                    /\ h \in Hashes(AllPages(knowledge_base)[b])

\* two pages shared a hash, the first of them held it twice and lost one copy
DedupKeepsCrossPageWitness ==
    /\ ret = <<"deduplicated">>
    /\ \E a, b \in 1..Len(AllPages(arg)) :
           /\ a < b
           /\ Hashes(AllPages(arg)[a]) \cap Hashes(AllPages(arg)[b]) # {}
           /\ Len(AllPages(knowledge_base)[a].val.content.paragraphs)
                  < Len(AllPages(arg)[a].val.content.paragraphs)

\* the paragraph list of the n-th page of a store
ParagraphsOf(kb, n) == AllPages(kb)[n].val.content.paragraphs

\* C33: on every store the pass leaves on each page a sub-list of its
\* paragraphs in their order, and the first paragraph of each normalized
\* hash on a page is in it, ahead of every other retained paragraph of that
\* hash; a second pass leaves every page with the paragraph list the first
\* pass gave it.
DedupIdempotentInOrder ==
    /\ ret # <<>> =>
           \A n \in 1..Len(AllPages(arg)) :
               LET before == ParagraphsOf(arg, n)
                   after  == ParagraphsOf(IF Len(ret) = 2 THEN ret[2] ELSE knowledge_base, n)
               IN  /\ \E f \in [1..Len(after) -> 1..Len(before)] :
                          /\ \A i, j \in 1..Len(after) : i < j => f[i] < f[j]
                          /\ \A i \in 1..Len(after) : after[i] = before[f[i]]
                          /\ \A i \in 1..Len(before) :
                                 (\A j \in 1..(i - 1) : TextHash(before[j]) # TextHash(before[i]))
                                     => \E k \in 1..Len(after) : f[k] = i
    /\ Len(ret) = 2 =>
           /\ Len(AllPages(knowledge_base)) = Len(AllPages(ret[2]))
           /\ \A n \in 1..Len(AllPages(ret[2])) :
                  /\ AllPages(knowledge_base)[n].key = AllPages(ret[2])[n].key
                  /\ ParagraphsOf(knowledge_base, n) = ParagraphsOf(ret[2], n)

\* the pass ran twice on a store of two pages that share a hash: the first
\* pass took a copy from the page iterated first and left the other page
\* its two copies, and the second pass changed neither
DedupIdempotentInOrderWitness ==
    /\ Len(ret) = 2
    /\ Len(AllPages(arg)) = 2
    /\ Len(ParagraphsOf(arg, 1)) = 2
    /\ Len(ParagraphsOf(ret[2], 1)) = 1
    /\ ParagraphsOf(ret[2], 1) = <<ParagraphsOf(arg, 1)[1]>>
    /\ Len(ParagraphsOf(ret[2], 2)) = 2
    /\ Hashes(AllPages(arg)[1]) = Hashes(AllPages(arg)[2])
    /\ Cardinality(Hashes(AllPages(arg)[2])) = 1
    /\ ParagraphsOf(knowledge_base, 1) = ParagraphsOf(ret[2], 1)
    /\ ParagraphsOf(knowledge_base, 2) = ParagraphsOf(ret[2], 2)

(***************************************************************************)
(* The link loop of crawl_page applied to the <a href> of one page.        *)
(***************************************************************************)
LinkHrefs == {<<"mailto:">>,
              <<"/", "toolbox", "/", "a">>,
              <<"/", "toolbox", "/", "b">>,
              <<"/", "guide", "/", "x">>,
              <<"/", "blog", "/", "a">>,
              <<"/", "about">>}

\* the page whose links are partitioned: the home page of the domain that
\* prepends or of a domain without rule of its own
LinkInputs ==
    {[hrefs |-> h, url |-> <<o, "/">>, base_domain |-> get_domain(<<o, "/">>)] :
        h \in SeqsUpTo(LinkHrefs, MaxLinks),
        o \in {"https://www.caregiveraction.org", "https://www.example.org"}}

InitLinks ==
    /\ DefaultConstructed
    /\ arg \in LinkInputs
    /\ ret = <<>>

LinkLoop ==
    /\ ret = <<>>
    /\ ret' = <<link_partition(arg.hrefs, arg.url, arg.base_domain, {arg.url})>>
    /\ UNCHANGED <<arg, crawl_vars>>

NextLinks == LinkLoop

SpecLinks == InitLinks /\ [][NextLinks]_vars

\* the absolute URLs of the <a href> the loop does not skip, in document order
FollowedInDocumentOrder ==
    MapSeq(SelectSeq(arg.hrefs, LAMBDA h : ~SkippedHref(h)),
           LAMBDA h : normalize_url(h, arg.url))

\* C23: on www.caregiveraction.org the priority list is the /toolbox/ links
\* in reverse document order followed by the other priority links in
\* document order, so every /toolbox/ link precedes every other priority
\* link; on another domain the priority list is in document order.
ToolboxLinksLeadInReverse ==
    ret # <<>> =>
        LET cl == ret[1].content_links IN
        IF arg.base_domain = "www.caregiveraction.org"
        THEN /\ cl = Reverse(SelectSeq(FollowedInDocumentOrder, HoldsToolbox))
                     \o SelectSeq(FollowedInDocumentOrder,
                                  LAMBDA u : ~HoldsToolbox(u) /\ HoldsSectionPattern(u))
             /\ \A i, j \in 1..Len(cl) :
                    (HoldsToolbox(cl[i]) /\ ~HoldsToolbox(cl[j])) => i < j
        ELSE cl = SelectSeq(FollowedInDocumentOrder, HoldsContentWord)

\* /guide/x, /toolbox/a, /toolbox/b in this order on the page give the
\* priority list /toolbox/b, /toolbox/a, /guide/x
ToolboxLinksLeadInReverseWitness ==
    /\ ret # <<>>
    /\ arg.base_domain = "www.caregiveraction.org"
    /\ arg.hrefs = << <<"/", "guide", "/", "x">>, <<"/", "toolbox", "/", "a">>,
                      <<"/", "toolbox", "/", "b">> >>
    /\ ret[1].content_links =
           << <<"https://www.caregiveraction.org", "/", "toolbox", "/", "b">>,
              <<"https://www.caregiveraction.org", "/", "toolbox", "/", "a">>,
              <<"https://www.caregiveraction.org", "/", "guide", "/", "x">> >>

(***************************************************************************)
(* A run whose first seeds are offline: crawl_websites has called          *)
(* crawl_website on MaxPriorErrors seeds whose home page answered with a   *)
(* status other than 200, and goes on with the seeds of the model.         *)
(***************************************************************************)
\* the home page of the i-th offline seed, as crawl_page has cleaned it
PriorSeed(i) == <<"https://offline" \o ToString(i) \o ".example", "/">>

\* what lines 559-564 have appended for the offline seeds, in order
PriorErrors == [i \in 1..MaxPriorErrors |-> [url |-> PriorSeed(i), kind |-> "status_code"]]

\* the generator after the offline seeds: each is visited (line 541) and
\* logged (lines 562-563), none has a domain record; seed_log and fetch_log
\* record the run from here on
InitErrors ==
    /\ knowledge_base = <<>>
    /\ visited_urls = {PriorSeed(i) : i \in 1..MaxPriorErrors}
    /\ stats = [pages_crawled |-> 0, pages_skipped |-> 0, errors |-> MaxPriorErrors]
    /\ error_urls = PriorErrors
    /\ \E q \in Quotas : \E content_only \in BOOLEAN : \E respect_robots \in BOOLEAN :
           config = [max_pages_per_domain |-> q,
                     content_only |-> content_only,
                     respect_robots |-> respect_robots]
    /\ seed = NoSeed
    /\ stack = <<>>
    /\ call = NoCall
    /\ fetch_log = <<>>
    /\ seed_log = <<>>
    /\ output_file = <<>>
    /\ arg = <<>>
    /\ ret = <<>>

SpecErrors == InitErrors /\ [][Next]_vars

\* the first min(n, metadata_errors_shown) entries of a list of n entries
FirstShown(log) ==
    [i \in 1..(IF Len(log) < metadata_errors_shown THEN Len(log)
               ELSE metadata_errors_shown) |-> log[i]]

\* C31: in every state stats.errors is the length of error_urls; a step
\* leaves the entries error_urls already has as they are, in place; once
\* add_metadata has run, the metadata holds the first min(n, 100) entries of
\* error_urls in order, its statistics.errors is the full count n, and
\* error_urls itself still has its n entries.
ErrorLogInStepAndCapped ==
    /\ [](stats.errors = Len(error_urls))
    /\ [][/\ Len(error_urls') >= Len(error_urls)
          /\ SubSeq(error_urls', 1, Len(error_urls)) = error_urls]_vars
    /\ [][("_metadata" \notin DictKeys(knowledge_base)
              /\ "_metadata" \in DictKeys(knowledge_base'))
          => /\ error_urls' = error_urls
             /\ DictGet(knowledge_base', "_metadata").errors = FirstShown(error_urls)
             /\ DictGet(knowledge_base', "_metadata").statistics.errors
                    = Len(error_urls)]_vars

\* the offline seeds and three failures of the model's own seeds make an
\* error log longer than the cap: the metadata shows the first 100 entries,
\* counts them all, and the log still ends with the last failure
ErrorLogInStepAndCappedWitness ==
    /\ "_metadata" \in DictKeys(knowledge_base)
    /\ Len(error_urls) > metadata_errors_shown
    /\ error_urls[Len(error_urls)].url \in SiteUrls
    /\ Len(DictGet(knowledge_base, "_metadata").errors) = metadata_errors_shown
    /\ DictGet(knowledge_base, "_metadata").statistics.errors = Len(error_urls)

====
